---- MODULE Spec2Model ----
(***************************************************************************)
(* A model of sklint's validation engine (pkg/validator, internal/parse).  *)
(*                                                                         *)
(* Conventions.  Go strings that the engine inspects byte by byte (file    *)
(* contents, frontmatter values, references, path segments) are sequences  *)
(* of one-byte strings; the three bytes of the UTF-8 byte-order mark are   *)
(* written "EF", "BB", "BF".  Finding codes, file labels and message       *)
(* formats, which the engine only compares or copies, are TLA+ strings.    *)
(* A path is a sequence of segments; every path is absolute.               *)
(***************************************************************************)
EXTENDS Integers, Sequences, FiniteSets, TLC

(***************************************************************************)
(* Finding codes (validator.go, const block).                              *)
(***************************************************************************)
codes ==
    [codePathNotFound |-> "PATH_NOT_FOUND",
     codePathNotDirectory |-> "PATH_NOT_DIRECTORY",
     codeSkillMDMissing |-> "SKILL_MD_MISSING",
     codeSkillMDNotFile |-> "SKILL_MD_NOT_FILE",
     codeSkillMDSymlink |-> "SKILL_MD_SYMLINK",
     codeSkillMDSymlinkInvalid |-> "SKILL_MD_SYMLINK_INVALID",
     codeSkillMDSymlinkEscapes |-> "SKILL_MD_SYMLINK_ESCAPES_ROOT",
     codeFrontmatterStart |-> "FRONTMATTER_START_MISSING",
     codeFrontmatterEnd |-> "FRONTMATTER_END_MISSING",
     codeFrontmatterEmpty |-> "FRONTMATTER_EMPTY",
     codeFrontmatterInvalidYAML |-> "FRONTMATTER_INVALID_YAML",
     codeFrontmatterNotMapping |-> "FRONTMATTER_NOT_MAPPING",
     codeScriptsNotDir |-> "SCRIPTS_NOT_DIRECTORY",
     codeReferencesNotDir |-> "REFERENCES_NOT_DIRECTORY",
     codeAssetsNotDir |-> "ASSETS_NOT_DIRECTORY",
     codeNameMissing |-> "NAME_MISSING",
     codeNameNotString |-> "NAME_NOT_STRING",
     codeNameTooShort |-> "NAME_TOO_SHORT",
     codeNameTooLong |-> "NAME_TOO_LONG",
     codeNameInvalidChars |-> "NAME_INVALID_CHARS",
     codeNameStartsWithHyphen |-> "NAME_STARTS_WITH_HYPHEN",
     codeNameEndsWithHyphen |-> "NAME_ENDS_WITH_HYPHEN",
     codeNameConsecutiveHyphens |-> "NAME_CONSECUTIVE_HYPHENS",
     codeNameMismatchDirectory |-> "NAME_MISMATCH_DIRECTORY",
     codeDescriptionMissing |-> "DESCRIPTION_MISSING",
     codeDescriptionNotString |-> "DESCRIPTION_NOT_STRING",
     codeDescriptionTooShort |-> "DESCRIPTION_TOO_SHORT",
     codeDescriptionTooLong |-> "DESCRIPTION_TOO_LONG",
     codeCompatibilityNotString |-> "COMPATIBILITY_NOT_STRING",
     codeCompatibilityTooShort |-> "COMPATIBILITY_TOO_SHORT",
     codeCompatibilityTooLong |-> "COMPATIBILITY_TOO_LONG",
     codeLicenseNotString |-> "LICENSE_NOT_STRING",
     codeMetadataNotObject |-> "METADATA_NOT_OBJECT",
     codeMetadataValueNotString |-> "METADATA_VALUE_NOT_STRING",
     codeAllowedToolsNotString |-> "ALLOWED_TOOLS_NOT_STRING",
     codeAllowedToolsEmpty |-> "ALLOWED_TOOLS_EMPTY",
     codeSkillMDTooLongLines |-> "SKILL_MD_TOO_LONG_LINES",
     codeSkillMDMissingBody |-> "SKILL_MD_MISSING_BODY",
     codeUnknownTopLevelKey |-> "UNKNOWN_TOP_LEVEL_KEY",
     codeScriptsDirEmpty |-> "SCRIPTS_DIR_EMPTY",
     codeReferencesDirEmpty |-> "REFERENCES_DIR_EMPTY",
     codeAssetsDirEmpty |-> "ASSETS_DIR_EMPTY",
     codeRefContainsDotDot |-> "REF_CONTAINS_DOTDOT",
     codeRefTooDeep |-> "REF_TOO_DEEP",
     codeRefMissingFile |-> "REF_MISSING_FILE",
     codeRefEscapesRoot |-> "REF_ESCAPES_ROOT"]

LevelError == "error"
LevelWarning == "warning"

(***************************************************************************)
(* Go compares strings bytewise.  The only strings sortFindings compares   *)
(* are file labels and codes, so their order is tabulated: each list below *)
(* is in ascending bytewise order (upper case before lower case, a proper  *)
(* prefix before its extensions, 'Z' before '_').                          *)
(***************************************************************************)
FileOrder ==
    << "", "SKILL.md", "assets", "references", "scripts" >>

CodeOrder ==
    << "ALLOWED_TOOLS_EMPTY", "ALLOWED_TOOLS_NOT_STRING", "ASSETS_DIR_EMPTY",
       "ASSETS_NOT_DIRECTORY", "COMPATIBILITY_NOT_STRING",
       "COMPATIBILITY_TOO_LONG", "COMPATIBILITY_TOO_SHORT",
       "DESCRIPTION_MISSING", "DESCRIPTION_NOT_STRING", "DESCRIPTION_TOO_LONG",
       "DESCRIPTION_TOO_SHORT", "FRONTMATTER_EMPTY", "FRONTMATTER_END_MISSING",
       "FRONTMATTER_INVALID_YAML", "FRONTMATTER_NOT_MAPPING",
       "FRONTMATTER_START_MISSING", "LICENSE_NOT_STRING", "METADATA_NOT_OBJECT",
       "METADATA_VALUE_NOT_STRING", "NAME_CONSECUTIVE_HYPHENS",
       "NAME_ENDS_WITH_HYPHEN", "NAME_INVALID_CHARS", "NAME_MISMATCH_DIRECTORY",
       "NAME_MISSING", "NAME_NOT_STRING", "NAME_STARTS_WITH_HYPHEN",
       "NAME_TOO_LONG", "NAME_TOO_SHORT", "PATH_NOT_DIRECTORY", "PATH_NOT_FOUND",
       "REFERENCES_DIR_EMPTY", "REFERENCES_NOT_DIRECTORY", "REF_CONTAINS_DOTDOT",
       "REF_ESCAPES_ROOT", "REF_MISSING_FILE", "REF_TOO_DEEP",
       "SCRIPTS_DIR_EMPTY", "SCRIPTS_NOT_DIRECTORY", "SKILL_MD_MISSING",
       "SKILL_MD_MISSING_BODY", "SKILL_MD_NOT_FILE", "SKILL_MD_SYMLINK",
       "SKILL_MD_SYMLINK_ESCAPES_ROOT", "SKILL_MD_SYMLINK_INVALID",
       "SKILL_MD_TOO_LONG_LINES", "UNKNOWN_TOP_LEVEL_KEY" >>

IndexOf(seq, x) == CHOOSE i \in 1..Len(seq) : seq[i] = x

\* s < t for the strings of a tabulated order
StrLess(order, s, t) == IndexOf(order, s) < IndexOf(order, t)

(***************************************************************************)
(* Result and Finding (types.go); addError, addWarning.                    *)
(* A message is the tuple of its format and the format's arguments.        *)
(***************************************************************************)
EmptyResult == [Path |-> << >>, Valid |-> FALSE, Errors |-> << >>, Warnings |-> << >>]

Finding(level, code, message, file, line) ==
    [Level |-> level, Code |-> code, Message |-> message, File |-> file, Line |-> line]

\* an addError that throws away the warnings collected so far
addErrorDroppingWarnings(result, code, message, file, line) ==
    [result EXCEPT !.Errors = Append(@, Finding(LevelError, code, message, file, line)),
                   !.Warnings = << >>]

\* an addError that records the error twice
addErrorTwice(result, code, message, file, line) ==
    [result EXCEPT !.Errors = Append(Append(@, Finding(LevelError, code, message, file, line)),
                                     Finding(LevelError, code, message, file, line))]

addError(result, code, message, file, line) ==
    [result EXCEPT !.Errors = Append(@, Finding(LevelError, code, message, file, line))]

\* an addWarning that never records the warning
addWarningDropped(result, opts, code, message, file, line) == result

addWarning(result, opts, code, message, file, line) ==
    IF opts.NoWarn
    THEN result
    ELSE [result EXCEPT !.Warnings = Append(@, Finding(LevelWarning, code, message, file, line))]

(***************************************************************************)
(* sortFindings.  The comparison is the closure given to sort.Slice; an    *)
(* unknown line (0) is replaced by 1<<30.  sort.Slice sorts a slice of at  *)
(* most 12 elements by insertion sort (a longer one by pattern-defeating   *)
(* quicksort); no run of this model collects more than 12 findings of one  *)
(* level, so the insertion sort is what runs.                              *)
(***************************************************************************)
UnknownLine == 1073741824

lineKey(f) == IF f.Line = 0 THEN UnknownLine ELSE f.Line

findingLess(a, b) ==
    IF a.File # b.File THEN StrLess(FileOrder, a.File, b.File)
    ELSE IF lineKey(a) # lineKey(b) THEN lineKey(a) < lineKey(b)
    ELSE StrLess(CodeOrder, a.Code, b.Code)

\* the inner loop of insertion sort: sink element j while it is less than its predecessor
RECURSIVE sinkElement(_, _)
sinkElement(s, j) ==
    IF j > 1 /\ findingLess(s[j], s[j - 1])
    THEN sinkElement([s EXCEPT ![j] = s[j - 1], ![j - 1] = s[j]], j - 1)
    ELSE s

RECURSIVE insertionSort(_, _)
insertionSort(s, i) ==
    IF i > Len(s) THEN s ELSE insertionSort(sinkElement(s, i), i + 1)

\* a sortFindings that leaves the findings in the order of their discovery
sortFindingsUnsorted(findings) == findings

sortFindings(findings) == insertionSort(findings, 2)

\* a finalizeResult that ignores strict mode
finalizeResultStrictIgnored(result, opts) ==
    [result EXCEPT !.Errors = sortFindings(result.Errors),
                   !.Warnings = sortFindings(result.Warnings),
                   !.Valid = (Len(result.Errors) = 0)]

finalizeResult(result, opts) ==
    LET valid0 == Len(result.Errors) = 0
        valid == IF opts.Strict /\ Len(result.Warnings) > 0 THEN FALSE ELSE valid0
    IN  [result EXCEPT !.Errors = sortFindings(result.Errors),
                       !.Warnings = sortFindings(result.Warnings),
                       !.Valid = valid]

(***************************************************************************)
(* Byte strings: the functions of package strings that the engine uses.    *)
(***************************************************************************)
HasPrefix(s, p) == Len(s) >= Len(p) /\ SubSeq(s, 1, Len(p)) = p

HasSuffix(s, p) == Len(s) >= Len(p) /\ SubSeq(s, Len(s) - Len(p) + 1, Len(s)) = p

TrimPrefix(s, p) == IF HasPrefix(s, p) THEN SubSeq(s, Len(p) + 1, Len(s)) ELSE s

\* strings.TrimLeft / TrimRight with the cutset given as a set of bytes
TrimLeft(s, cut) ==
    LET keep == {i \in 1..Len(s) : s[i] \notin cut}
    IN  IF keep = {} THEN << >>
        ELSE SubSeq(s, CHOOSE i \in keep : \A j \in keep : i <= j, Len(s))

TrimRight(s, cut) ==
    LET keep == {i \in 1..Len(s) : s[i] \notin cut}
    IN  IF keep = {} THEN << >>
        ELSE SubSeq(s, 1, CHOOSE i \in keep : \A j \in keep : j <= i)

\* the white-space bytes: the \s of Go regular expressions, and what unicode.IsSpace
\* accepts among the bytes that occur in the inputs (none holds a vertical tab)
SpaceBytes == {" ", "\t", "\n", "\r", "\f"}

TrimSpace(s) == TrimRight(TrimLeft(s, SpaceBytes), SpaceBytes)

Contains(s, p) == \E i \in 1..(Len(s) - Len(p) + 1) : SubSeq(s, i, i + Len(p) - 1) = p

\* strings.Count(s, "/") for a one-byte separator
Count(s, c) == Cardinality({i \in 1..Len(s) : s[i] = c})

\* the elements of a set of positions, ascending (by halving the range, so
\* that the evaluation stays shallow on long strings)
RECURSIVE ascending(_, _, _)
ascending(set, lo, hi) ==
    IF set = {} THEN << >>
    ELSE IF lo = hi THEN << lo >>
    ELSE LET mid == (lo + hi) \div 2
         IN  ascending({i \in set : i <= mid}, lo, mid)
             \o ascending({i \in set : i > mid}, mid + 1, hi)

\* the positions of byte c in s, ascending
positions(s, c) == ascending({i \in 1..Len(s) : s[i] = c}, 1, Len(s))

\* the concatenation of the sequences parts[lo], ..., parts[hi]
RECURSIVE concat(_, _, _)
concat(parts, lo, hi) ==
    IF lo > hi THEN << >>
    ELSE IF lo = hi THEN parts[lo]
    ELSE LET mid == (lo + hi) \div 2
         IN  concat(parts, lo, mid) \o concat(parts, mid + 1, hi)

\* strings.Split(s, sep) for a one-byte separator: always at least one piece
Split(s, c) ==
    LET cutAt(pos) ==
            [k \in 1..(Len(pos) + 1) |->
                SubSeq(s, IF k = 1 THEN 1 ELSE pos[k - 1] + 1,
                          IF k = Len(pos) + 1 THEN Len(s) ELSE pos[k] - 1)]
    IN  cutAt(positions(s, c))

\* a strings.Join that leaves the separator out
joinWithoutSeparator(parts, sep) == concat(parts, 1, Len(parts))

\* strings.Join
Join(parts, sep) ==
    concat([i \in 1..Len(parts) |-> IF i = 1 THEN parts[1] ELSE sep \o parts[i]], 1, Len(parts))

(***************************************************************************)
(* Paths (package path/filepath on a slash-separated system).  A path in   *)
(* the model is the sequence of the segments of an absolute path.          *)
(***************************************************************************)
Dot == << "." >>
DotDot == << ".", "." >>

\* filepath.Clean of an absolute path given by its raw segments
RECURSIVE cleanInto(_, _)
cleanInto(acc, segs) ==
    IF segs = << >> THEN acc
    ELSE LET s == Head(segs)
         IN  IF s = << >> \/ s = Dot THEN cleanInto(acc, Tail(segs))
             ELSE IF s = DotDot
                  THEN cleanInto(IF acc = << >> THEN acc ELSE SubSeq(acc, 1, Len(acc) - 1),
                                 Tail(segs))
                  ELSE cleanInto(Append(acc, s), Tail(segs))

Clean(segs) == cleanInto(<< >>, segs)

\* filepath.Join(root, rel) where rel is a slash-separated byte string
JoinPath(root, rel) == Clean(root \o Split(rel, "/"))

\* a filepath.Base that answers "/" for every path
BaseOfRoot(path) == << "/" >>

\* filepath.Base of a cleaned absolute path ("/" for the root itself)
Base(path) == IF path = << >> THEN << "/" >> ELSE path[Len(path)]

\* filepath.Rel(root, target) for cleaned absolute paths: the segments of the result
Rel(root, target) ==
    LET common == {n \in 0..Len(root) :
                      n <= Len(target) /\ SubSeq(root, 1, n) = SubSeq(target, 1, n)}
        \* k segments are shared: up from root to them, then down to target
        from(k) == [i \in 1..(Len(root) - k) |-> DotDot] \o SubSeq(target, k + 1, Len(target))
        orDot(rel) == IF rel = << >> THEN << Dot >> ELSE rel
    IN  orDot(from(CHOOSE n \in common : \A m \in common : m <= n))

\* an isWithinRoot that finds every target inside the root
isWithinRootAlways(root, target) == TRUE

isWithinRoot(root, target) ==
    LET within(rel) ==
            IF rel = << Dot >> THEN TRUE
            ELSE IF rel[1] = DotDot THEN FALSE
            ELSE TRUE
    IN  within(Rel(root, target))

hasDotDot(path) ==
    LET among(parts) == \E i \in 1..Len(parts) : parts[i] = DotDot
    IN  among(Split(path, "/"))

(***************************************************************************)
(* internal/parse: ParseFrontmatter.                                       *)
(***************************************************************************)
ErrFrontmatterStartMissing == "frontmatter start missing"
ErrFrontmatterEndMissing == "frontmatter end missing"
ErrFrontmatterEmpty == "frontmatter empty"
\* bufio.ErrTooLong, the error of a Scanner whose buffer cannot hold a line
ErrTooLong == "bufio.Scanner: token too long"

\* bufio.MaxScanTokenSize, the buffer limit of the Scanner bufio.NewScanner makes
MaxScanTokenSize == 65536

BOM == << "EF", "BB", "BF" >>
Delimiter == << "-", "-", "-" >>
NL == << "\n" >>

\* a ParseFrontmatter that keeps the byte-order mark
stripBOMNever(content) == content

stripBOM(content) == IF HasPrefix(content, BOM) THEN SubSeq(content, 4, Len(content)) ELSE content

\* bufio.ScanLines: the pieces between line feeds, without a final empty piece
rawLines(content) ==
    LET withoutFinalEmpty(parts) ==
            IF parts[Len(parts)] = << >> THEN SubSeq(parts, 1, Len(parts) - 1) ELSE parts
    IN  withoutFinalEmpty(Split(content, "\n"))

\* dropCR of bufio.ScanLines
dropCR(line) ==
    IF Len(line) > 0 /\ line[Len(line)] = "\r" THEN SubSeq(line, 1, Len(line) - 1) ELSE line

\* the Scanner loop: [err, lines]; a line that does not fit the buffer ends the scan
scanLines(content) ==
    LET scan(raw) ==
            IF \E i \in 1..Len(raw) : Len(raw[i]) >= MaxScanTokenSize
            THEN [err |-> ErrTooLong, lines |-> << >>]
            ELSE [err |-> "nil", lines |-> [i \in 1..Len(raw) |-> dropCR(raw[i])]]
    IN  scan(rawLines(content))

NoFrontmatter == [YAML |-> << >>, Body |-> << >>, LineCount |-> 0, YAMLStartLine |-> 0]

ParseFrontmatter(bytes) ==
    LET failed(err) == [err |-> err, fm |-> NoFrontmatter]
        cut(lines, end) ==
            LET accept(yamlText) ==
                    IF TrimSpace(yamlText) = << >> THEN failed(ErrFrontmatterEmpty)
                    ELSE [err |-> "nil",
                          fm |-> [YAML |-> yamlText,
                                  Body |-> Join(SubSeq(lines, end + 1, Len(lines)), NL),
                                  LineCount |-> Len(lines), YAMLStartLine |-> 2]]
            IN  accept(Join(SubSeq(lines, 2, end - 1), NL))
        find(lines, ends) ==
            IF ends = {} THEN failed(ErrFrontmatterEndMissing)
            ELSE cut(lines, CHOOSE i \in ends : \A j \in ends : i <= j)
        parse(lines) ==
            IF Len(lines) = 0 THEN failed(ErrFrontmatterStartMissing)
            ELSE IF lines[1] # Delimiter THEN failed(ErrFrontmatterStartMissing)
            ELSE find(lines, {i \in 2..Len(lines) : lines[i] = Delimiter})
        scanned(scan) == IF scan.err # "nil" THEN failed(scan.err) ELSE parse(scan.lines)
    IN  scanned(scanLines(stripBOM(bytes)))

(***************************************************************************)
(* Frontmatter keys and decoded values.  A decoded value (an `any` of Go)  *)
(* is [t, s, m]: t its dynamic type, s the bytes of a string, m the        *)
(* entries of a mapping, each [keyIsString, valueIsString].                *)
(***************************************************************************)
keys ==
    [name |-> << "n", "a", "m", "e" >>,
     description |-> << "d", "e", "s", "c", "r", "i", "p", "t", "i", "o", "n" >>,
     license |-> << "l", "i", "c", "e", "n", "s", "e" >>,
     compatibility |-> << "c", "o", "m", "p", "a", "t", "i", "b", "i", "l", "i", "t", "y" >>,
     metadata |-> << "m", "e", "t", "a", "d", "a", "t", "a" >>,
     allowedTools |-> << "a", "l", "l", "o", "w", "e", "d", "-", "t", "o", "o", "l", "s" >>]

knownKeys ==
    {keys.name, keys.description, keys.license, keys.compatibility, keys.metadata,
     keys.allowedTools}

StringValue(s) == [t |-> "string", s |-> s, m |-> << >>]
IntValue == [t |-> "int", s |-> << >>, m |-> << >>]
ListValue == [t |-> "list", s |-> << >>, m |-> << >>]
\* map[string]any when every key is a string, map[any]any otherwise
MapValue(entries) ==
    [t |-> IF \A i \in 1..Len(entries) : entries[i].keyIsString
           THEN "map[string]any" ELSE "map[any]any",
     s |-> << >>, m |-> entries]

FileSkillMD == "SKILL.md"

\* the bytes [a-z0-9-] of namePattern
NameBytes ==
    {"a", "b", "c", "d", "e", "f", "g", "h", "i", "j", "k", "l", "m", "n", "o", "p", "q",
     "r", "s", "t", "u", "v", "w", "x", "y", "z",
     "0", "1", "2", "3", "4", "5", "6", "7", "8", "9", "-"}

\* a namePattern that matches every string
namePatternMatchAny(name) == TRUE

\* namePattern.MatchString: ^[a-z0-9-]+$
namePatternMatch(name) == Len(name) >= 1 /\ \A i \in 1..Len(name) : name[i] \in NameBytes

lineFor(lines, key) == IF key \in DOMAIN lines THEN lines[key] ELSE 0

\* one `if cond { addError(...) }` statement
errorIf(cond, result, code, message, line) ==
    IF cond THEN addError(result, code, message, FileSkillMD, line) ELSE result

validateName(result, data, lines, dirName) ==
    IF keys.name \notin DOMAIN data
    THEN addError(result, codes.codeNameMissing, << "Frontmatter 'name' is required." >>, FileSkillMD, 0)
    ELSE IF data[keys.name].t # "string"
    THEN addError(result, codes.codeNameNotString, << "Frontmatter 'name' must be a string." >>,
                  FileSkillMD, lineFor(lines, keys.name))
    ELSE LET name == data[keys.name].s
             ln == lineFor(lines, keys.name)
             r1 == errorIf(Len(name) < 1, result, codes.codeNameTooShort,
                       << "Frontmatter 'name' must be at least 1 character." >>, ln)
             r2 == errorIf(Len(name) > 64, r1, codes.codeNameTooLong,
                       << "Frontmatter 'name' must be at most 64 characters." >>, ln)
             r3 == errorIf(~namePatternMatch(name), r2, codes.codeNameInvalidChars,
                       << "Frontmatter 'name' must use lowercase letters, digits, and hyphens only." >>, ln)
             r4 == errorIf(HasPrefix(name, << "-" >>), r3, codes.codeNameStartsWithHyphen,
                       << "Frontmatter 'name' must not start with '-'." >>, ln)
             r5 == errorIf(HasSuffix(name, << "-" >>), r4, codes.codeNameEndsWithHyphen,
                       << "Frontmatter 'name' must not end with '-'." >>, ln)
             r6 == errorIf(Contains(name, << "-", "-" >>), r5, codes.codeNameConsecutiveHyphens,
                       << "Frontmatter 'name' must not contain consecutive hyphens." >>, ln)
         IN  errorIf(name # dirName, r6, codes.codeNameMismatchDirectory,
                     << "Frontmatter name '%s' must match directory name '%s'.", name, dirName >>, ln)

validateDescription(result, data, lines) ==
    IF keys.description \notin DOMAIN data
    THEN addError(result, codes.codeDescriptionMissing,
                  << "Frontmatter 'description' is required." >>, FileSkillMD, 0)
    ELSE IF data[keys.description].t # "string"
    THEN addError(result, codes.codeDescriptionNotString,
                  << "Frontmatter 'description' must be a string." >>,
                  FileSkillMD, lineFor(lines, keys.description))
    ELSE LET desc == data[keys.description].s
             ln == lineFor(lines, keys.description)
             r1 == errorIf(Len(desc) < 1, result, codes.codeDescriptionTooShort,
                       << "Frontmatter 'description' must be at least 1 character." >>, ln)
         IN  errorIf(Len(desc) > 1024, r1, codes.codeDescriptionTooLong,
                     << "Frontmatter 'description' must be at most 1024 characters." >>, ln)

validateCompatibility(result, data, lines) ==
    IF keys.compatibility \notin DOMAIN data THEN result
    ELSE IF data[keys.compatibility].t # "string"
    THEN addError(result, codes.codeCompatibilityNotString,
                  << "Frontmatter 'compatibility' must be a string." >>,
                  FileSkillMD, lineFor(lines, keys.compatibility))
    ELSE LET comp == data[keys.compatibility].s
             ln == lineFor(lines, keys.compatibility)
             r1 == errorIf(Len(comp) < 1, result, codes.codeCompatibilityTooShort,
                       << "Frontmatter 'compatibility' must be at least 1 character." >>, ln)
         IN  errorIf(Len(comp) > 500, r1, codes.codeCompatibilityTooLong,
                     << "Frontmatter 'compatibility' must be at most 500 characters." >>, ln)

validateLicense(result, data, lines) ==
    IF keys.license \notin DOMAIN data THEN result
    ELSE errorIf(data[keys.license].t # "string", result, codes.codeLicenseNotString,
                 << "Frontmatter 'license' must be a string." >>, lineFor(lines, keys.license))

\* The entries of a metadata mapping that end the range loop with an error.
metadataOffenders(value) ==
    {i \in 1..Len(value.m) :
        IF value.t = "map[string]any" THEN ~value.m[i].valueIsString
        ELSE ~value.m[i].keyIsString \/ ~value.m[i].valueIsString}

\* Go ranges over a map in an unspecified order; the loop returns at the first
\* offending entry it meets, which is entry `first` (0 when there is none).
validateMetadata(result, data, lines, first) ==
    IF keys.metadata \notin DOMAIN data THEN result
    ELSE LET value == data[keys.metadata]
             ln == lineFor(lines, keys.metadata)
         IN  IF value.t = "map[string]any"
             THEN errorIf(first # 0, result, codes.codeMetadataValueNotString,
                          << "Frontmatter 'metadata' values must be strings." >>, ln)
             ELSE IF value.t = "map[any]any"
             THEN IF first = 0 THEN result
                  ELSE IF ~value.m[first].keyIsString
                  THEN addError(result, codes.codeMetadataNotObject,
                           << "Frontmatter 'metadata' must be an object with string keys." >>,
                           FileSkillMD, ln)
                  ELSE addError(result, codes.codeMetadataValueNotString,
                           << "Frontmatter 'metadata' values must be strings." >>, FileSkillMD, ln)
             ELSE addError(result, codes.codeMetadataNotObject,
                           << "Frontmatter 'metadata' must be an object." >>, FileSkillMD, ln)

\* a range loop that meets no offending entry
metadataFirstsNone(data) == {0}

\* the choices of `first` the range loop of validateMetadata can make
metadataFirsts(data) ==
    IF keys.metadata \in DOMAIN data /\ metadataOffenders(data[keys.metadata]) # {}
    THEN metadataOffenders(data[keys.metadata])
    ELSE {0}

validateAllowedTools(result, data, lines) ==
    IF keys.allowedTools \notin DOMAIN data THEN result
    ELSE IF data[keys.allowedTools].t # "string"
    THEN addError(result, codes.codeAllowedToolsNotString,
                  << "Frontmatter 'allowed-tools' must be a string." >>,
                  FileSkillMD, lineFor(lines, keys.allowedTools))
    ELSE errorIf(TrimSpace(data[keys.allowedTools].s) = << >>, result, codes.codeAllowedToolsEmpty,
                 << "Frontmatter 'allowed-tools' must not be empty." >>,
                 lineFor(lines, keys.allowedTools))

(***************************************************************************)
(* Bytewise order of byte strings (Go's < on strings, sort.Strings); the   *)
(* bytes are listed in ascending order, those no document of the model     *)
(* holds (quote, backslash, backquote, control bytes) left out.            *)
(***************************************************************************)
ByteOrder ==
    <<
       "\t", "\n", "\f", "\r", " ", "!", "#", "$", "%", "&", "'",
       "(", ")", "*", "+", ",", "-", ".", "/", "0", "1", "2", "3",
       "4", "5", "6", "7", "8", "9", ":", ";", "<", "=", ">", "?",
       "@", "A", "B", "C", "D", "E", "F", "G", "H", "I", "J", "K",
       "L", "M", "N", "O", "P", "Q", "R", "S", "T", "U", "V", "W",
       "X", "Y", "Z", "[", "]", "^", "_", "a", "b", "c",
       "d", "e", "f", "g", "h", "i", "j", "k", "l", "m", "n", "o",
       "p", "q", "r", "s", "t", "u", "v", "w", "x", "y", "z", "{",
       "|", "}", "~", "BB", "BF", "EF" >>

BytesLess(s, t) ==
    LET diff == {i \in 1..Len(s) : i > Len(t) \/ s[i] # t[i]}
        d == CHOOSE i \in diff : \A j \in diff : i <= j
    IN  IF diff = {} THEN Len(s) < Len(t)
        ELSE d <= Len(t) /\ IndexOf(ByteOrder, s[d]) < IndexOf(ByteOrder, t[d])

\* sort.Strings of the byte strings of a set
RECURSIVE sortStrings(_)
sortStrings(set) ==
    IF set = {} THEN << >>
    ELSE LET least == CHOOSE x \in set : \A y \in set : y = x \/ BytesLess(x, y)
         IN  << least >> \o sortStrings(set \ {least})

(***************************************************************************)
(* gopkg.in/yaml.v3 as the engine uses it.  The decoder is given by the    *)
(* documents it is applied to: a block mapping of `key: value` lines, one  *)
(* entry per line, and a few other payloads.  An entry is [key, src, val]: *)
(* the key, the bytes of the value as written, and the value decoded.      *)
(* A node is [Kind, Content]; the Content of a mapping node is its keys in *)
(* source order, each [Kind, Value, Line] (the value nodes, which the      *)
(* engine never reads, are left out, so len(Content) is twice Len).        *)
(***************************************************************************)
Entry(key, src, val) == [key |-> key, src |-> src, val |-> val]

entryLine(e) == e.key \o << ":", " " >> \o e.src

mappingText(entries) == Join([i \in 1..Len(entries) |-> entryLine(entries[i])], NL)

mappingNode(entries) ==
    [Kind |-> "mapping",
     Content |-> [i \in 1..Len(entries) |-> [Kind |-> "scalar", Value |-> entries[i].key, Line |-> i]]]

SequenceNode == [Kind |-> "sequence", Content |-> << >>]
ZeroNode == [Kind |-> "none", Content |-> << >>]
DocumentNode(root) == [Kind |-> "document", Content |-> << root >>]

\* decoding into map[string]any refuses a key defined twice
hasDuplicateKey(entries) ==
    \E i, j \in 1..Len(entries) : i < j /\ entries[i].key = entries[j].key

mappingData(entries) ==
    [k \in {entries[i].key : i \in 1..Len(entries)} |->
        entries[CHOOSE i \in 1..Len(entries) : entries[i].key = k].val]

\* a YAML payload with what yaml.Unmarshal makes of it, into a Node and into a map
MappingPayload(entries) ==
    [text |-> mappingText(entries), nodeErr |-> "nil",
     node |-> DocumentNode(mappingNode(entries)),
     dataErr |-> IF hasDuplicateKey(entries) THEN "yaml: mapping key already defined" ELSE "nil",
     data |-> IF hasDuplicateKey(entries) THEN << >> ELSE mappingData(entries)]

OtherPayload(text, nodeErr, node) ==
    [text |-> text, nodeErr |-> nodeErr, node |-> node, dataErr |-> nodeErr, data |-> << >>]

DirName == << "s", "k" >>

EntryName(s) == Entry(keys.name, s, StringValue(s))
EntryDescription(s) == Entry(keys.description, s, StringValue(s))

Entries ==
    [valid |-> << EntryName(DirName), EntryDescription(<< "d" >>) >>,
     badName |-> << EntryName(<< "B", "a", "d", "-" >>), EntryDescription(<< "d" >>) >>,
     unknownKeys |->
        << EntryName(DirName), Entry(<< "o", "w", "n", "e", "r" >>, << "x" >>, StringValue(<< "x" >>)),
           EntryDescription(<< "d" >>), Entry(<< "e", "x", "t", "r", "a" >>, << "1" >>, IntValue) >>,
     duplicateKey |-> << EntryName(DirName), EntryDescription(<< "d" >>), EntryName(DirName) >>,
     wrongTypes |->
        << Entry(keys.description, << "5" >>, IntValue), Entry(keys.license, << "1" >>, IntValue),
           Entry(keys.metadata, << "x" >>, StringValue(<< "x" >>)),
           Entry(keys.allowedTools, << "[", "]" >>, ListValue) >>]

YamlPayloads ==
    { MappingPayload(Entries.valid), MappingPayload(Entries.badName),
      MappingPayload(Entries.unknownKeys), MappingPayload(Entries.duplicateKey),
      MappingPayload(Entries.wrongTypes),
      \* "{}": a mapping without keys
      OtherPayload(<< "{", "}" >>, "nil", DocumentNode(mappingNode(<< >>))),
      \* "- a": the root is a sequence
      OtherPayload(<< "-", " ", "a" >>, "nil", DocumentNode(SequenceNode)),
      \* "# c": a comment only, no document; the Node stays zero
      OtherPayload(<< "#", " ", "c" >>, "nil", ZeroNode),
      \* "name: [": a flow sequence that is never closed
      OtherPayload(keys.name \o << ":", " ", "[" >>,
                   "yaml: line 1: did not find expected node content", ZeroNode) }

payloadOf(text) == CHOOSE p \in YamlPayloads : p.text = text

\* yaml.Unmarshal([]byte(text), &node)
yamlUnmarshalNode(text) ==
    LET decoded(p) == [err |-> p.nodeErr, node |-> p.node]
    IN  decoded(payloadOf(text))

\* yaml.Unmarshal([]byte(text), &data)
yamlUnmarshalMap(text) ==
    LET decoded(p) == [err |-> p.dataErr, data |-> p.data]
    IN  decoded(payloadOf(text))

\* a mappingRoot that refuses a mapping without keys
mappingRootRejectingEmpty(node) ==
    LET n == IF node.Kind = "document" /\ Len(node.Content) > 0 THEN node.Content[1] ELSE node
    IN  IF n.Kind # "mapping" \/ n.Content = << >> THEN [err |-> "not mapping", node |-> ZeroNode]
        ELSE [err |-> "nil", node |-> n]

mappingRoot(node) ==
    LET n == IF node.Kind = "document" /\ Len(node.Content) > 0 THEN node.Content[1] ELSE node
    IN  IF n.Kind # "mapping" THEN [err |-> "not mapping", node |-> ZeroNode]
        ELSE [err |-> "nil", node |-> n]

\* the map of each scalar key to its document line; a later key overwrites an earlier one
mapKeyLines(node, offset) ==
    LET scalars == {i \in 1..Len(node.Content) : node.Content[i].Kind = "scalar"}
    IN  [k \in {node.Content[i].Value : i \in scalars} |->
            LET at == {i \in scalars : node.Content[i].Value = k}
                last == CHOOSE i \in at : \A j \in at : j <= i
            IN  node.Content[last].Line + offset - 1]

\* a collectUnknownKeys that leaves the keys in the order of the document
collectUnknownKeysUnsorted(node) ==
    SelectSeq([i \in 1..Len(node.Content) |-> node.Content[i].Value],
              LAMBDA key : key \notin knownKeys)

\* sort.Strings orders the slice; the model has no payload with an unknown key
\* written twice, so the slice holds each unknown key once
collectUnknownKeys(node) ==
    sortStrings({node.Content[i].Value :
                    i \in {j \in 1..Len(node.Content) :
                              node.Content[j].Kind = "scalar"
                              /\ node.Content[j].Value \notin knownKeys}})

(***************************************************************************)
(* The documents of the model.  A file holds the identifier of a document; *)
(* DocContent gives its bytes.  A document is either one of the raw        *)
(* documents below or a frontmatter block around one of the YAML payloads, *)
(* followed by a body made of some of the reference mentions.              *)
(***************************************************************************)
Mentions ==
    << << "[", "a", "]", "(", "s", "c", "r", "i", "p", "t", "s", "/", "a", ".", "s", "h", ")" >>,
       << "s", "e", "e", " ", "r", "e", "f", "e", "r", "e", "n", "c", "e", "s", "/", "b", ".", "m", "d", "." >>,
       << "[", "s", "]", "(", ".", ".", "/", "s", "e", "c", "r", "e", "t", ".", "t", "x", "t", ")" >>,
       << "!", "[", "i", "]", "(", "a", "s", "s", "e", "t", "s", "/", "x", "/", "y", ".", "p", "n", "g", ")" >>,
       << "[", "w", "]", "(", "h", "t", "t", "p", "s", ":", "/", "/", "e", ".", "x", ")" >>,
       << "[", "a", "]", "(", "s", "c", "r", "i", "p", "t", "s", "/", "a", ".", "s", "h", ")", " ",
          "[", "t", "]", "(", "#", "t", "o", "p", ")" >>,
       << "o", "k" >> >>

\* the body that mentions the references `picks` (indices of Mentions), one per
\* line, under a line of prose; no picks, no body
BodyText(picks) ==
    IF picks = << >> THEN << >>
    ELSE << "h", "i", "\n" >> \o Join([i \in 1..Len(picks) |-> Mentions[picks[i]]], NL) \o NL

PayloadText(name) ==
    CASE name = "valid" -> mappingText(Entries.valid)
      [] name = "badname" -> mappingText(Entries.badName)
      [] name = "unknownkeys" -> mappingText(Entries.unknownKeys)
      [] name = "duplicatekey" -> mappingText(Entries.duplicateKey)
      [] name = "wrongtypes" -> mappingText(Entries.wrongTypes)
      [] name = "emptymapping" -> << "{", "}" >>
      [] name = "sequence" -> << "-", " ", "a" >>
      [] name = "comment" -> << "#", " ", "c" >>
      [] name = "unclosed" -> keys.name \o << ":", " ", "[" >>

PayloadNames ==
    {"valid", "badname", "unknownkeys", "duplicatekey", "wrongtypes",
     "emptymapping", "sequence", "comment", "unclosed"}

ValidHeader == Delimiter \o NL \o mappingText(Entries.valid) \o NL \o Delimiter \o NL

RawDocument(name) ==
    CASE name = "empty" -> << >>
      [] name = "nostart" -> mappingText(Entries.valid) \o NL
      [] name = "noend" -> Delimiter \o NL \o mappingText(Entries.valid) \o NL
      [] name = "blank" -> Delimiter \o NL \o << " ", " " >> \o NL \o Delimiter \o NL
                           \o << "h", "i" >> \o NL
      \* a body line of MaxScanTokenSize bytes
      [] name = "longline" -> ValidHeader \o [i \in 1..MaxScanTokenSize |-> "x"]
      \* 4 + 497 + 1 = 502 lines
      [] name = "manylines" -> ValidHeader \o [i \in 1..497 |-> "\n"] \o << "h", "i" >>

RawNames == {"empty", "nostart", "noend", "blank", "longline", "manylines"}

RawDoc(name) == [kind |-> "raw", name |-> name, body |-> << >>]
FrontmatterDoc(payload, picks) == [kind |-> "fm", name |-> payload, body |-> picks]
NoDoc == RawDoc("empty")

DocContent(doc) ==
    IF doc.kind = "raw" THEN RawDocument(doc.name)
    ELSE Delimiter \o NL \o PayloadText(doc.name) \o NL \o Delimiter \o NL \o BodyText(doc.body)

(***************************************************************************)
(* The filesystem the engine reads (os.Stat, os.Lstat, os.ReadDir,         *)
(* os.ReadFile, filepath.EvalSymlinks).  A filesystem is a function from   *)
(* paths to nodes; a path outside its domain does not exist.  A node has   *)
(*   kind    "dir", "file", "symlink" or "broken" (every stat of it fails  *)
(*           with an error other than not-exist, e.g. EIO or EACCES),      *)
(*   target  the path a symlink points to,                                 *)
(*   doc     the document a file holds,                                    *)
(*   locked  TRUE when opening it is refused (EACCES on read or listing).  *)
(* File operations return [err, ...] with err "nil" on success.             *)
(***************************************************************************)
DirNode == [kind |-> "dir", target |-> << >>, doc |-> NoDoc, locked |-> FALSE]
FileNode(doc) == [kind |-> "file", target |-> << >>, doc |-> doc, locked |-> FALSE]
LinkNode(target) == [kind |-> "symlink", target |-> target, doc |-> NoDoc, locked |-> FALSE]

errno ==
    [ENOENT |-> "no such file or directory",
     ENOTDIR |-> "not a directory",
     EISDIR |-> "is a directory",
     EACCES |-> "permission denied",
     EIO |-> "input/output error",
     ELOOP |-> "too many levels of symbolic links"]

\* the error of os.Getwd, which filepath.Abs returns
ErrGetwd == "getwd failed"

\* an errors.Is that matches no error
IsNotExistNever(err) == FALSE

\* errors.Is(err, fs.ErrNotExist)
IsNotExist(err) == err = errno.ENOENT

\* Walk `rest` down from the resolved directory `cur`, replacing symlinks by
\* their targets; the last component is followed only when followLast.
\* fuel bounds the number of links followed, as the kernel does.
RECURSIVE walk(_, _, _, _, _)
walk(nodes, cur, rest, fuel, followLast) ==
    IF rest = << >> THEN [err |-> "nil", path |-> cur]
    ELSE LET nxt == Append(cur, Head(rest))
             more == Tail(rest)
         IN  IF nxt \notin DOMAIN nodes THEN [err |-> errno.ENOENT, path |-> nxt]
             ELSE IF nodes[nxt].kind = "broken" THEN [err |-> errno.EIO, path |-> nxt]
             ELSE IF nodes[nxt].kind = "symlink" /\ (more # << >> \/ followLast)
                  THEN IF fuel = 0 THEN [err |-> errno.ELOOP, path |-> nxt]
                       ELSE walk(nodes, << >>, nodes[nxt].target \o more, fuel - 1, followLast)
             ELSE IF more # << >> /\ nodes[nxt].kind # "dir"
                  THEN [err |-> errno.ENOTDIR, path |-> nxt]
             ELSE walk(nodes, nxt, more, fuel, followLast)

\* the node a resolved path names; the filesystem root is a plain directory
NodeAt(nodes, path) == IF path = << >> THEN DirNode ELSE nodes[path]

\* os.Stat: [err, isDir]
Stat(nodes, path) ==
    LET w == walk(nodes, << >>, path, Cardinality(DOMAIN nodes), TRUE)
    IN  IF w.err # "nil" THEN [err |-> w.err, isDir |-> FALSE, isSymlink |-> FALSE]
        ELSE [err |-> "nil", isDir |-> NodeAt(nodes, w.path).kind = "dir", isSymlink |-> FALSE]

\* os.Lstat: [err, isDir, isSymlink]
Lstat(nodes, path) ==
    LET w == walk(nodes, << >>, path, Cardinality(DOMAIN nodes), FALSE)
    IN  IF w.err # "nil" THEN [err |-> w.err, isDir |-> FALSE, isSymlink |-> FALSE]
        ELSE [err |-> "nil", isDir |-> NodeAt(nodes, w.path).kind = "dir",
              isSymlink |-> NodeAt(nodes, w.path).kind = "symlink"]

\* filepath.EvalSymlinks: [err, path]
EvalSymlinks(nodes, path) == walk(nodes, << >>, path, Cardinality(DOMAIN nodes), TRUE)

\* an os.ReadDir that finds one entry in whatever it is given
ReadDirOneEntry(nodes, path) == [err |-> "nil", entries |-> 1]

\* os.ReadDir: [err, entries], entries the number of entries of the directory
ReadDir(nodes, path) ==
    LET w == walk(nodes, << >>, path, Cardinality(DOMAIN nodes), TRUE)
    IN  IF w.err # "nil" THEN [err |-> w.err, entries |-> 0]
        ELSE IF NodeAt(nodes, w.path).kind # "dir" THEN [err |-> errno.ENOTDIR, entries |-> 0]
        ELSE IF NodeAt(nodes, w.path).locked THEN [err |-> errno.EACCES, entries |-> 0]
        ELSE [err |-> "nil",
              entries |-> Cardinality({p \in DOMAIN nodes :
                              Len(p) = Len(w.path) + 1 /\ SubSeq(p, 1, Len(w.path)) = w.path})]

\* os.ReadFile: [err, content]
ReadFile(nodes, path) ==
    LET w == walk(nodes, << >>, path, Cardinality(DOMAIN nodes), TRUE)
    IN  IF w.err # "nil" THEN [err |-> w.err, content |-> << >>]
        ELSE IF NodeAt(nodes, w.path).kind = "dir" THEN [err |-> errno.EISDIR, content |-> << >>]
        ELSE IF NodeAt(nodes, w.path).locked THEN [err |-> errno.EACCES, content |-> << >>]
        ELSE [err |-> "nil", content |-> DocContent(NodeAt(nodes, w.path).doc)]

\* filepath.Abs: a relative path is joined to the working directory, which
\* os.Getwd may fail to give.  rawPath is the path argument as a byte string.
Abs(env, rawPath) ==
    IF HasPrefix(rawPath, << "/" >>) THEN [err |-> "nil", path |-> Clean(Split(rawPath, "/"))]
    ELSE IF ~env.cwdOk THEN [err |-> ErrGetwd, path |-> << >>]
    ELSE [err |-> "nil", path |-> Clean(env.cwd \o Split(rawPath, "/"))]

(***************************************************************************)
(* The reference scanner: linkPattern, plainRefPattern, scanReferences,    *)
(* collectRef, checkRef.                                                   *)
(***************************************************************************)
\* the last index of the longest run of bytes outside `stop` that starts at
\* `from` (from - 1 when the run is empty): a greedy [^...]+ or [^...]*
runEnd(s, from, stop) ==
    LET before(stops) ==
            IF stops = {} THEN Len(s)
            ELSE (CHOOSE i \in stops : \A j \in stops : i <= j) - 1
    IN  before({i \in from..Len(s) : s[i] \in stop})

RefStop == SpaceBytes \cup {")"}

\* linkPattern = !?\[[^\]]*\]\(([^\s)]+) matched at position p: [ok, ref, end]
linkMatchAt(s, p) ==
    LET \* q the position of "[", r that of the first "]" after it, e the end of the target
        target(r, e) ==
            IF r <= Len(s) /\ r + 1 <= Len(s) /\ s[r + 1] = "(" /\ e >= r + 2
            THEN [ok |-> TRUE, ref |-> SubSeq(s, r + 2, e), end |-> e]
            ELSE [ok |-> FALSE, ref |-> << >>, end |-> p]
        label(r) == target(r, runEnd(s, r + 2, RefStop))
        bracket(q) ==
            IF s[q] = "[" THEN label(runEnd(s, q + 1, {"]"}) + 1)
            ELSE [ok |-> FALSE, ref |-> << >>, end |-> p]
    IN  bracket(IF s[p] = "!" /\ p + 1 <= Len(s) /\ s[p + 1] = "[" THEN p + 1 ELSE p)

\* linkPattern.FindAllStringSubmatch(body, -1): the captured targets, left to
\* right; each match is the leftmost one that starts at or after `from`
RECURSIVE linkTargets(_, _)
linkTargets(s, from) ==
    LET take(m) == << m.ref >> \o linkTargets(s, m.end + 1)
        first(starts) ==
            IF starts = {} THEN << >>
            ELSE take(linkMatchAt(s, CHOOSE x \in starts : \A y \in starts : x <= y))
    IN  first({p \in from..Len(s) : linkMatchAt(s, p).ok})

SiblingWords ==
    { << "s", "c", "r", "i", "p", "t", "s" >>,
      << "r", "e", "f", "e", "r", "e", "n", "c", "e", "s" >>,
      << "a", "s", "s", "e", "t", "s" >> }

\* (scripts|references|assets)/[^\s)]+ matched with its first byte at position w
wordMatchAt(s, w) ==
    LET path(from, e) ==
            IF e >= from THEN [ok |-> TRUE, end |-> e] ELSE [ok |-> FALSE, end |-> w]
        word(x) == path(w + Len(x) + 1, runEnd(s, w + Len(x) + 1, RefStop))
        oneOf(words) ==
            IF w <= Len(s) /\ words # {} THEN word(CHOOSE y \in words : TRUE)
            ELSE [ok |-> FALSE, end |-> w]
    IN  oneOf({x \in SiblingWords : HasPrefix(SubSeq(s, w, Len(s)), x \o << "/" >>)})

\* plainRefPattern = (^|\s)(scripts|references|assets)/[^\s)]+ matched at
\* position p of a line: [ok, text, end]
plainMatchAt(s, p) ==
    LET matched(m) ==
            IF m.ok THEN [ok |-> TRUE, text |-> SubSeq(s, p, m.end), end |-> m.end]
            ELSE [ok |-> FALSE, text |-> << >>, end |-> p]
        afterSpace ==
            IF s[p] \in SpaceBytes THEN matched(wordMatchAt(s, p + 1))
            ELSE [ok |-> FALSE, text |-> << >>, end |-> p]
        orAfterSpace(atStart) == IF atStart.ok THEN atStart ELSE afterSpace
    IN  orAfterSpace(IF p = 1 THEN matched(wordMatchAt(s, 1))
                     ELSE [ok |-> FALSE, text |-> << >>, end |-> p])

\* plainRefPattern.FindAllString(line, -1), each match trimmed as scanReferences does
RECURSIVE plainTargets(_, _)
plainTargets(s, from) ==
    LET take(m) ==
            << TrimRight(TrimLeft(TrimSpace(m.text), {" ", "\t"}), {".", ",", ";", ":", ")"}) >>
            \o plainTargets(s, m.end + 1)
        first(starts) ==
            IF starts = {} THEN << >>
            ELSE take(plainMatchAt(s, CHOOSE x \in starts : \A y \in starts : x <= y))
    IN  first({p \in from..Len(s) : plainMatchAt(s, p).ok})

plainTargetsOfLines(lines) ==
    concat([i \in 1..Len(lines) |-> plainTargets(lines[i], 1)], 1, Len(lines))


\* collectRef: the set `seen` with ref added unless ref is to be skipped
collectRef(ref, seen) ==
    IF ref = << >> THEN seen
    ELSE IF \/ HasPrefix(ref, << "h", "t", "t", "p", ":", "/", "/" >>)
            \/ HasPrefix(ref, << "h", "t", "t", "p", "s", ":", "/", "/" >>) THEN seen
    ELSE IF HasPrefix(ref, << "/" >>) \/ HasPrefix(ref, << "#" >>) THEN seen
    ELSE seen \cup {ref}

RECURSIVE collectAll(_, _)
collectAll(refs, seen) ==
    IF refs = << >> THEN seen ELSE collectAll(Tail(refs), collectRef(Head(refs), seen))

\* the map `seen` that scanReferences fills before it ranges over it
seenReferences(body) ==
    LET trimmed(targets) == [i \in 1..Len(targets) |-> TrimSpace(targets[i])]
    IN  collectAll(plainTargetsOfLines(Split(body, "\n")),
                   collectAll(trimmed(linkTargets(body, 1)), {}))

\* a checkRef that reports a reference as an error, whatever the options
checkRefReportingError(env, root, ref, result, opts) ==
    [result |-> addError(result, codes.codeRefMissingFile,
                         << "Reference '%s' does not exist.", ref >>, FileSkillMD, 0),
     ops |-> << >>]

\* checkRef: [result, ops], ops the filesystem calls made, in order
checkRef(env, root, ref, result, opts) ==
    LET warn(r, code, format) == addWarning(r, opts, code, << format, ref >>, FileSkillMD, 0)
        escapes(r) ==
            warn(r, codes.codeRefEscapesRoot, "Reference '%s' resolves outside the skill directory.")
        \* lines 486-496
        symlink(r, resolved) ==
            IF resolved.err # "nil"
            THEN warn(r, codes.codeRefMissingFile, "Reference '%s' could not be resolved.")
            ELSE IF ~isWithinRoot(root, resolved.path) THEN escapes(r)
            ELSE r
        \* lines 478-485
        exists(r, target, info) ==
            IF info.err # "nil"
            THEN [result |-> IF IsNotExist(info.err)
                             THEN warn(r, codes.codeRefMissingFile,
                                       "Reference '%s' does not exist.")
                             ELSE r,
                  ops |-> << << "Lstat", target >> >>]
            ELSE IF info.isSymlink /\ ~opts.FollowSymlinks
            THEN [result |-> symlink(r, EvalSymlinks(env.nodes, target)),
                  ops |-> << << "Lstat", target >>, << "EvalSymlinks", target >> >>]
            ELSE [result |-> r, ops |-> << << "Lstat", target >> >>]
        \* lines 467-477
        located(r, target) ==
            IF ~opts.CheckRefsExist THEN [result |-> r, ops |-> << >>]
            ELSE IF ~isWithinRoot(root, target) THEN [result |-> escapes(r), ops |-> << >>]
            ELSE exists(r, target, Lstat(env.nodes, target))
        \* lines 462-465
        depth(r) ==
            located(IF Count(TrimPrefix(ref, << ".", "/" >>), "/") > 1
                    THEN warn(r, codes.codeRefTooDeep,
                              "Reference '%s' is nested deeper than one level.")
                    ELSE r,
                    JoinPath(root, ref))
    IN  \* lines 459-461
        depth(IF hasDotDot(ref)
              THEN warn(result, codes.codeRefContainsDotDot,
                        "Reference '%s' contains '..' path segments.")
              ELSE result)

(***************************************************************************)
(* checkOptionalDir.  `name` is the label of the sibling directory; its    *)
(* bytes are the path segment.                                             *)
(***************************************************************************)
SiblingSegment(name) ==
    CASE name = "scripts" -> << "s", "c", "r", "i", "p", "t", "s" >>
      [] name = "references" -> << "r", "e", "f", "e", "r", "e", "n", "c", "e", "s" >>
      [] name = "assets" -> << "a", "s", "s", "e", "t", "s" >>

SegSkillMD == << "S", "K", "I", "L", "L", ".", "m", "d" >>

\* a checkOptionalDir that reports nothing
checkOptionalDirSkipped(env, root, name, errCode, warnCode, result, opts) == result

checkOptionalDir(env, root, name, errCode, warnCode, result, opts) ==
    LET listed(listing) ==
            IF listing.err # "nil" THEN result
            ELSE IF listing.entries = 0
            THEN addWarning(result, opts, warnCode, << "%s directory is empty.", name >>, name, 0)
            ELSE result
        found(path, info) ==
            IF info.err # "nil" THEN result
            ELSE IF ~info.isDir
            THEN addError(result, errCode, << "%s must be a directory if present.", name >>, name, 0)
            ELSE listed(ReadDir(env.nodes, path))
        at(path) == found(path, Stat(env.nodes, path))
    IN  at(Clean(Append(root, SiblingSegment(name))))

(***************************************************************************)
(* State.  env is the environment of the process: the filesystem and the   *)
(* working directory; arg is the path argument.  Neither changes during a  *)
(* run.  calls[i] is the i-th invocation of ValidateSkill on that input:   *)
(*   pc         where the invocation stands,                               *)
(*   path       its path argument (arg is that of the first invocation),   *)
(*   opts       its Options,                                               *)
(*   result     its Result so far (result.Path is absPath),                *)
(*   err        the error it returns ("nil" for none),                     *)
(*   skillPath  resolvedSkillPath,                                         *)
(*   fm         the Frontmatter parsed,                                    *)
(*   ops        the filesystem calls checkRef made,                        *)
(*   finalized  how many times finalizeResult ran.                         *)
(* The second invocation starts when the first has returned.               *)
(* input and outcome serve the runs of a single function on its own        *)
(* (ParseSpec, FieldSpec below): the argument it is given and what it      *)
(* returned; they are idle while ValidateSkill runs.                       *)
(***************************************************************************)
VARIABLES env, arg, calls, input, outcome

vars == << env, arg, calls, input, outcome >>

Calls == {1, 2}

InitCall(path, opts) ==
    [pc |-> "start", path |-> path, opts |-> opts, result |-> EmptyResult, err |-> "nil",
     skillPath |-> << >>, fm |-> NoFrontmatter, ops |-> << >>, finalized |-> 0]

\* finalizeResult(&result, opts); return result, nil
returnFinalized(c, result) ==
    [c EXCEPT !.pc = "done", !.result = finalizeResult(result, c.opts), !.finalized = @ + 1]

\* return result, err
returnError(c, result, err) == [c EXCEPT !.pc = "done", !.result = result, !.err = err]

\* the invocations of Calls run alone, one after the other; every other one
\* starts when they have returned and runs beside its like
MayStep(i) == \A j \in Calls : j < i => calls[j].pc = "done"

\* ValidateSkill, lines 86-107: the input path
ResolvePath(i) ==
    /\ MayStep(i)
    /\ calls[i].pc = "start"
    /\ LET c == calls[i]
           \* lines 94-107
           stat(result, info) ==
               IF info.err # "nil"
               THEN IF IsNotExist(info.err)
                    THEN returnFinalized(c, addError(result, codes.codePathNotFound,
                             << "Path '%s' does not exist.", c.path >>, "", 0))
                    ELSE returnError(c, result, info.err)
               ELSE IF ~info.isDir
               THEN returnFinalized(c, addError(result, codes.codePathNotDirectory,
                        << "Path '%s' is not a directory.", c.path >>, "", 0))
               ELSE [c EXCEPT !.pc = "dirs", !.result = result]
           \* lines 88-92
           resolve(abs) ==
               IF abs.err # "nil" THEN returnError(c, c.result, abs.err)
               ELSE stat([c.result EXCEPT !.Path = abs.path], Stat(env.nodes, abs.path))
       IN  calls' = [calls EXCEPT ![i] = resolve(Abs(env, c.path))]
    /\ UNCHANGED << env, arg, input, outcome >>

\* ValidateSkill, lines 109-111: the three sibling directories
CheckOptionalDirs(i) ==
    /\ MayStep(i)
    /\ calls[i].pc = "dirs"
    /\ LET c == calls[i]
           root == c.result.Path
           r1 == checkOptionalDir(env, root, "scripts", codes.codeScriptsNotDir, codes.codeScriptsDirEmpty,
                                  c.result, c.opts)
           r2 == checkOptionalDir(env, root, "references", codes.codeReferencesNotDir,
                                  codes.codeReferencesDirEmpty, r1, c.opts)
           r3 == checkOptionalDir(env, root, "assets", codes.codeAssetsNotDir, codes.codeAssetsDirEmpty,
                                  r2, c.opts)
       IN  calls' = [calls EXCEPT ![i] = [c EXCEPT !.pc = "skill", !.result = r3]]
    /\ UNCHANGED << env, arg, input, outcome >>

\* ValidateSkill, lines 113-144: SKILL.md and its symlink
LocateSkillMD(i) ==
    /\ MayStep(i)
    /\ calls[i].pc = "skill"
    /\ LET c == calls[i]
           absPath == c.result.Path
           \* lines 130-143, warned the result with the symlink warning
           symlink(warned, resolved) ==
               IF resolved.err # "nil"
               THEN returnFinalized(c, addError(warned, codes.codeSkillMDSymlinkInvalid,
                        << "SKILL.md symlink cannot be resolved." >>, FileSkillMD, 0))
               ELSE IF ~c.opts.FollowSymlinks /\ ~isWithinRoot(absPath, resolved.path)
               THEN returnFinalized(c, addError(warned, codes.codeSkillMDSymlinkEscapes,
                        << "SKILL.md symlink resolves outside the skill directory." >>,
                        FileSkillMD, 0))
               ELSE [c EXCEPT !.pc = "read", !.result = warned, !.skillPath = resolved.path]
           \* lines 114-129
           lstat(skillPath, skillInfo) ==
               IF skillInfo.err # "nil"
               THEN IF IsNotExist(skillInfo.err)
                    THEN returnFinalized(c, addError(c.result, codes.codeSkillMDMissing,
                             << "SKILL.md is required." >>, FileSkillMD, 0))
                    ELSE returnError(c, c.result, skillInfo.err)
               ELSE IF skillInfo.isDir
               THEN returnFinalized(c, addError(c.result, codes.codeSkillMDNotFile,
                        << "SKILL.md must be a file, not a directory." >>, FileSkillMD, 0))
               ELSE IF skillInfo.isSymlink
               THEN symlink(addWarning(c.result, c.opts, codes.codeSkillMDSymlink,
                                       << "SKILL.md is a symlink." >>, FileSkillMD, 0),
                            EvalSymlinks(env.nodes, skillPath))
               ELSE [c EXCEPT !.pc = "read", !.skillPath = skillPath]
           join(skillPath) == lstat(skillPath, Lstat(env.nodes, skillPath))
       IN  calls' = [calls EXCEPT ![i] = join(Clean(Append(absPath, SegSkillMD)))]
    /\ UNCHANGED << env, arg, input, outcome >>

\* ValidateSkill, lines 146-165: read SKILL.md and cut out the frontmatter
ReadSkillMD(i) ==
    /\ MayStep(i)
    /\ calls[i].pc = "read"
    /\ LET c == calls[i]
           failed(code, message, line) ==
               returnFinalized(c, addError(c.result, code, << message >>, FileSkillMD, line))
           \* lines 151-165
           parse(parsed) ==
               IF parsed.err = "nil" THEN [c EXCEPT !.pc = "decode", !.fm = parsed.fm]
               ELSE IF parsed.err = ErrFrontmatterStartMissing
               THEN failed(codes.codeFrontmatterStart,
                           "SKILL.md must begin with '---' frontmatter delimiter.", 1)
               ELSE IF parsed.err = ErrFrontmatterEndMissing
               THEN failed(codes.codeFrontmatterEnd,
                           "SKILL.md frontmatter must end with '---' delimiter.", 0)
               ELSE IF parsed.err = ErrFrontmatterEmpty
               THEN failed(codes.codeFrontmatterEmpty,
                           "Frontmatter must contain at least one key.", 0)
               ELSE returnError(c, c.result, parsed.err)
           \* lines 146-149
           read(file) ==
               IF file.err # "nil" THEN returnError(c, c.result, file.err)
               ELSE parse(ParseFrontmatter(file.content))
       IN  calls' = [calls EXCEPT ![i] = read(ReadFile(env.nodes, c.skillPath))]
    /\ UNCHANGED << env, arg, input, outcome >>

\* ValidateSkill, lines 167-193: decode the frontmatter, as a node tree and as a map
DecodeFrontmatter(i) ==
    /\ MayStep(i)
    /\ calls[i].pc = "decode"
    /\ LET c == calls[i]
           invalid(err) ==
               returnFinalized(c, addError(c.result, codes.codeFrontmatterInvalidYAML,
                   << "Frontmatter YAML is invalid: %s", err >>, FileSkillMD, 0))
           \* lines 188-193
           map(data) == IF data.err # "nil" THEN invalid(data.err) ELSE [c EXCEPT !.pc = "fields"]
           \* lines 174-184
           mapping(root) ==
               IF root.err # "nil"
               THEN returnFinalized(c, addError(c.result, codes.codeFrontmatterNotMapping,
                        << "Frontmatter YAML must be a mapping/object." >>, FileSkillMD, 0))
               ELSE IF Len(root.node.Content) = 0
               THEN returnFinalized(c, addError(c.result, codes.codeFrontmatterEmpty,
                        << "Frontmatter must contain at least one key." >>, FileSkillMD, 0))
               ELSE map(yamlUnmarshalMap(c.fm.YAML))
           \* lines 167-172
           tree(node) == IF node.err # "nil" THEN invalid(node.err) ELSE mapping(mappingRoot(node.node))
       IN  calls' = [calls EXCEPT ![i] = tree(yamlUnmarshalNode(c.fm.YAML))]
    /\ UNCHANGED << env, arg, input, outcome >>

\* ValidateSkill, lines 195-200: the six field rules, on the decoded mapping
\* `data` with the key lines `lines`, in the directory absPath
fieldRules(result, data, lines, absPath, first) ==
    validateAllowedTools(
        validateMetadata(
            validateLicense(
                validateCompatibility(
                    validateDescription(
                        validateName(result, data, lines, Base(absPath)),
                        data, lines),
                    data, lines),
                data, lines),
            data, lines, first),
        data, lines)

\* ValidateSkill, lines 195-214: the field rules, the unknown keys, the line
\* count and the body
ValidateFields(i) ==
    /\ MayStep(i)
    /\ calls[i].pc = "fields"
    /\ LET c == calls[i]
           warnIf(cond, result, code, message) ==
               IF cond THEN addWarning(result, c.opts, code, message, FileSkillMD, 0) ELSE result
           \* lines 202-214
           document(result, unknownKeys) ==
               warnIf(TrimSpace(c.fm.Body) = << >>,
                   warnIf(c.fm.LineCount > 500,
                       warnIf(~c.opts.NoWarn /\ Len(unknownKeys) > 0, result,
                              codes.codeUnknownTopLevelKey,
                              << "Unknown top-level keys: %s",
                                 Join(unknownKeys, << ",", " " >>) >>),
                       codes.codeSkillMDTooLongLines,
                       << "SKILL.md is %d lines; recommended under 500 lines.",
                          c.fm.LineCount >>),
                   codes.codeSkillMDMissingBody, << "SKILL.md body is empty." >>)
           decoded(root, data) ==
               \E first \in metadataFirsts(data) :
                   calls' = [calls EXCEPT ![i] =
                       [c EXCEPT !.pc = "scan",
                                 !.result = document(
                                     fieldRules(c.result, data,
                                                mapKeyLines(root, c.fm.YAMLStartLine),
                                                c.result.Path, first),
                                     collectUnknownKeys(root))]]
       IN  decoded(mappingRoot(yamlUnmarshalNode(c.fm.YAML).node).node,
                   yamlUnmarshalMap(c.fm.YAML).data)
    /\ UNCHANGED << env, arg, input, outcome >>

\* the orders in which a range over the map `seen` may yield its keys: Go
\* leaves the iteration order of a map unspecified
rangeOrders(seen) ==
    {order \in [1..Cardinality(seen) -> seen] :
        \A i, j \in 1..Cardinality(seen) : i # j => order[i] # order[j]}

\* scanReferences, lines 440-442: checkRef on each key, in the order yielded
RECURSIVE checkRefs(_, _, _, _, _)
checkRefs(nodesEnv, root, order, acc, opts) ==
    IF order = << >> THEN acc
    ELSE LET checked == checkRef(nodesEnv, root, Head(order), acc.result, opts)
         IN  checkRefs(nodesEnv, root, Tail(order),
                       [result |-> checked.result, ops |-> acc.ops \o checked.ops], opts)

\* ValidateSkill, lines 216-219: scanReferences, finalizeResult and the return
ScanReferences(i) ==
    /\ MayStep(i)
    /\ calls[i].pc = "scan"
    /\ LET c == calls[i]
           seen == IF c.opts.NoWarn THEN {} ELSE seenReferences(c.fm.Body)
       IN  \E order \in rangeOrders(seen) :
              LET scanned == checkRefs(env, c.result.Path, order,
                                       [result |-> c.result, ops |-> << >>], c.opts)
              IN  calls' = [calls EXCEPT ![i] =
                     returnFinalized([c EXCEPT !.ops = scanned.ops], scanned.result)]
    /\ UNCHANGED << env, arg, input, outcome >>

(***************************************************************************)
(* Inputs.  The skill directory is /w/sk, /o lies outside it, and /l is a  *)
(* symlink to /w, so that /l/sk names the skill directory too.  A world is *)
(* a filesystem built from                                                 *)
(*   dir     what /w/sk is,                                                *)
(*   sib     what each sibling directory is: "absent", "file", "empty",    *)
(*           "full" (a directory with one entry), "broken", "locked",      *)
(*   child   what the entry of a full sibling is (scripts/a.sh,            *)
(*           references/b.md, assets/x),                                   *)
(*   skill   what SKILL.md is, and doc, the document it leads to.          *)
(***************************************************************************)
MaxSiblingEntries == 2
MaxRefs == 2

Root == << << "w" >>, DirName >>
OutsideFile == << << "o" >>, << "f" >> >>

ChildSegment(name) ==
    CASE name = "scripts" -> << "a", ".", "s", "h" >>
      [] name = "references" -> << "b", ".", "m", "d" >>
      [] name = "assets" -> << "x" >>

NoNodes == [p \in {} |-> DirNode]

EntryNodes(path, kind, doc) ==
    CASE kind = "absent" -> NoNodes
      [] kind = "file" -> path :> FileNode(doc)
      [] kind = "dir" -> path :> DirNode
      [] kind = "empty" -> path :> DirNode
      [] kind = "broken" -> path :> [DirNode EXCEPT !.kind = "broken"]
      [] kind = "locked_dir" -> path :> [DirNode EXCEPT !.locked = TRUE]
      [] kind = "locked_file" -> path :> [FileNode(NoDoc) EXCEPT !.locked = TRUE]
      [] kind = "link_in" -> (path :> LinkNode(Append(Root, << "r", "e", "a", "l", ".", "m", "d" >>)))
                             @@ (Append(Root, << "r", "e", "a", "l", ".", "m", "d" >>) :> FileNode(doc))
      [] kind = "link_out" -> path :> LinkNode(OutsideFile)
      [] kind = "link_dir" -> (path :> LinkNode(Append(Root, << "d" >>))) @@ (Append(Root, << "d" >>) :> DirNode)
      [] kind = "link_dangling" -> path :> LinkNode(Append(Root, << "g", "o", "n", "e" >>))

SiblingNodes(name, kind, childKind) ==
    LET path == Append(Root, SiblingSegment(name))
    IN  IF kind = "full"
        THEN (path :> DirNode) @@ EntryNodes(Append(path, ChildSegment(name)), childKind, NoDoc)
        ELSE EntryNodes(path, IF kind = "locked" THEN "locked_dir" ELSE kind, NoDoc)

WorldNodes(dir, sib, child, skill, doc) ==
    (<< << "w" >> >> :> DirNode) @@ (<< << "o" >> >> :> DirNode) @@ (OutsideFile :> FileNode(doc))
    @@ (<< << "l" >> >> :> LinkNode(<< << "w" >> >>))
    @@ EntryNodes(Root, dir, NoDoc)
    @@ (IF dir = "dir"
        THEN SiblingNodes("scripts", sib["scripts"], child["scripts"])
             @@ SiblingNodes("references", sib["references"], child["references"])
             @@ SiblingNodes("assets", sib["assets"], child["assets"])
             @@ EntryNodes(Append(Root, SegSkillMD), skill, doc)
        ELSE NoNodes)

SiblingSet == {"scripts", "references", "assets"}
NoSiblings == [n \in SiblingSet |-> "absent"]
FileChildren == [n \in SiblingSet |-> "file"]

World(rawPath, cwdOk, dir, sib, child, skill, doc) ==
    [arg |-> rawPath,
     env |-> [cwdOk |-> cwdOk, cwd |-> << << "w" >> >>,
              nodes |-> WorldNodes(dir, sib, child, skill, doc)]]

RelativeArg == DirName
AbsoluteArg == << "/", "w", "/" >> \o DirName
LinkedArg == << "/", "l", "/" >> \o DirName

PlainDoc == FrontmatterDoc("valid", << 7 >>)

\* the input path: relative or absolute, with or without a working directory
PathWorlds ==
    { World(a[1], a[2], dir, NoSiblings, FileChildren, "file", PlainDoc) :
        a \in {<< RelativeArg, TRUE >>, << RelativeArg, FALSE >>, << AbsoluteArg, TRUE >>},
        dir \in {"absent", "file", "broken", "dir"} }

\* the directory structure: the siblings and what SKILL.md is
StructureWorlds ==
    LET SiblingKinds == {"absent", "file", "empty", "full", "broken", "locked"}
        SiblingConfigs ==
            {sib \in [SiblingSet -> SiblingKinds] :
                Cardinality({n \in SiblingSet : sib[n] # "absent"}) <= MaxSiblingEntries}
        SkillKinds ==
            {"absent", "dir", "broken", "locked_file", "file", "link_in", "link_out", "link_dir",
             "link_dangling"}
    IN  { World(AbsoluteArg, TRUE, "dir", sib, FileChildren, skill, PlainDoc) :
            sib \in SiblingConfigs, skill \in SkillKinds }

SomeSiblings == [n \in SiblingSet |-> CASE n = "scripts" -> "empty"
                                         [] n = "references" -> "absent"
                                         [] n = "assets" -> "file"]

\* the documents SKILL.md may hold, directly or behind a symlink
DocumentWorlds ==
    LET Documents ==
            {RawDoc(n) : n \in RawNames}
            \cup {FrontmatterDoc(y, b) : y \in PayloadNames, b \in {<< >>, << 7 >>}}
    IN  { World(AbsoluteArg, TRUE, "dir", sib, FileChildren, skill, doc) :
            sib \in {NoSiblings, SomeSiblings}, skill \in {"file", "link_in"}, doc \in Documents }

\* the references of the body and what they lead to: the bodies mention up to
\* MaxRefs of the first six Mentions
ReferenceWorlds ==
    LET Picks ==
            {b \in UNION {[1..k -> 1..6] : k \in 1..MaxRefs} :
                \A i, j \in 1..Len(b) : i < j => b[i] < b[j]}
        ChildKinds == {"file", "link_in", "link_out", "link_dangling", "broken"}
        RefSiblings ==
            {[n \in SiblingSet |-> CASE n = "scripts" -> k[1]
                                     [] n = "references" -> k[2]
                                     [] n = "assets" -> "absent"] :
                k \in {"absent", "file", "full"} \X {"absent", "full"}}
    IN  { World(AbsoluteArg, TRUE, "dir", sib,
                [n \in SiblingSet |-> IF n = "scripts" THEN ck ELSE "file"],
                "file", FrontmatterDoc("valid", b)) :
            sib \in RefSiblings, ck \in ChildKinds, b \in Picks }

\* the skill directory named through the symlink /l, with SKILL.md a file or
\* a symlink that leads inside or outside the directory
LinkedWorlds ==
    { World(LinkedArg, TRUE, "dir", sib, FileChildren, skill, PlainDoc) :
        sib \in {NoSiblings, SomeSiblings}, skill \in {"file", "link_in", "link_out"} }

Worlds ==
    PathWorlds \cup StructureWorlds \cup DocumentWorlds \cup ReferenceWorlds \cup LinkedWorlds

Options == [Strict : BOOLEAN, NoWarn : BOOLEAN, FollowSymlinks : BOOLEAN, CheckRefsExist : BOOLEAN]

\* The second invocation is the first one repeated in strict mode.
Init ==
    \E w \in Worlds, o \in Options :
        /\ env = w.env
        /\ arg = w.arg
        /\ calls = [i \in Calls |-> InitCall(w.arg, IF i = 1 THEN o ELSE [o EXCEPT !.Strict = TRUE])]
        /\ input = "none"
        /\ outcome = "none"

Next ==
    \E i \in Calls :
        \/ ResolvePath(i)
        \/ CheckOptionalDirs(i)
        \/ LocateSkillMD(i)
        \/ ReadSkillMD(i)
        \/ DecodeFrontmatter(i)
        \/ ValidateFields(i)
        \/ ScanReferences(i)

Spec == Init /\ [][Next]_vars

(***************************************************************************)
(* Concurrent callers.  Two callers, each with its own path and Options,   *)
(* call ValidateSkill at the same time: invocations 3 and 4, whose steps   *)
(* interleave freely.  Invocations 1 and 2 are the same two calls made     *)
(* alone beforehand, one after the other, on the same filesystem.          *)
(***************************************************************************)
InitConcurrent ==
    LET Bodies == {<< >>, << 1, 2 >>, << 1, 3 >>}
        Docs == {FrontmatterDoc("valid", b) : b \in Bodies}
                \cup {FrontmatterDoc("unknownkeys", << >>), RawDoc("noend")}
        \* the second caller names the same directory, through the symlink /l,
        \* or the directory /o, which holds no SKILL.md
        Paths == {AbsoluteArg, LinkedArg, << "/", "o" >>}
        First == {o \in Options : ~o.Strict /\ ~o.FollowSymlinks}
        Second == {o \in Options : o.Strict /\ o.CheckRefsExist}
    IN  \E sib \in {NoSiblings, SomeSiblings}, skill \in {"file", "link_in"}, doc \in Docs,
           path \in Paths, o1 \in First, o2 \in Second :
            /\ env = World(AbsoluteArg, TRUE, "dir", sib, FileChildren, skill, doc).env
            /\ arg = AbsoluteArg
            /\ calls = [i \in 1..4 |-> IF i % 2 = 1 THEN InitCall(AbsoluteArg, o1)
                                       ELSE InitCall(path, o2)]
            /\ input = "none"
            /\ outcome = "none"

NextConcurrent ==
    \E i \in 1..4 :
        \/ ResolvePath(i)
        \/ CheckOptionalDirs(i)
        \/ LocateSkillMD(i)
        \/ ReadSkillMD(i)
        \/ DecodeFrontmatter(i)
        \/ ValidateFields(i)
        \/ ScanReferences(i)

ConcurrentSpec == InitConcurrent /\ [][NextConcurrent]_vars

(***************************************************************************)
(* ParseFrontmatter on its own.  An input is a document given by its lines *)
(* (none holds a line terminator), the terminator that ends them (LF, CRLF *)
(* or a lone CR), whether the last line is terminated too, and the number  *)
(* of byte-order marks in front; Document gives its bytes.                 *)
(***************************************************************************)
MaxLines == 4

\* the bytes of the document
Document(in) ==
    concat([k \in 1..in.bom |-> BOM], 1, in.bom)
    \o concat([k \in 1..Len(in.lines) |->
                  in.lines[k] \o (IF k < Len(in.lines) \/ in.final THEN in.term ELSE << >>)],
              1, Len(in.lines))

ParseInputs ==
    LET LineKinds == {Delimiter, << >>, << " " >>, << "a" >>, Delimiter \o << " " >>}
        Terminators == {<< "\n" >>, << "\r", "\n" >>, << "\r" >>}
        \* a line of n bytes after a valid frontmatter block
        LongLine(n) == << Delimiter, << "a" >>, Delimiter, [k \in 1..n |-> "x"] >>
    IN  {in \in [lines : UNION {[1..n -> LineKinds] : n \in 0..MaxLines},
                 term : Terminators, final : BOOLEAN, bom : 0..2] :
            \* the lines of the document are exactly in.lines
            /\ in.lines = << >> => ~in.final /\ in.bom < 2
            /\ in.lines # << >> => in.final \/ in.lines[Len(in.lines)] # << >>}
        \cup [lines : {LongLine(MaxScanTokenSize - 1), LongLine(MaxScanTokenSize)},
              term : {<< "\n" >>}, final : BOOLEAN, bom : {0}]

InitParse ==
    /\ input \in ParseInputs
    /\ outcome = [err |-> "pending", fm |-> NoFrontmatter]
    /\ env = [cwdOk |-> FALSE, cwd |-> << >>, nodes |-> NoNodes]
    /\ arg = << >>
    /\ calls = << >>

\* one call of ParseFrontmatter on a reader of the document
Parse ==
    /\ outcome.err = "pending"
    /\ outcome' = ParseFrontmatter(Document(input))
    /\ UNCHANGED << env, arg, calls, input >>

ParseSpec == InitParse /\ [][Parse]_vars

(***************************************************************************)
(* The field rules on their own.  An input is the decoded mapping `data`,  *)
(* the line of each of its keys, and the directory of the skill.  The      *)
(* rules run twice: on the mapping, then on the mapping cut down to one of *)
(* its six fields, so that the findings of a field can be compared between *)
(* two mappings that agree on it.  A value of type "absent" stands for a   *)
(* key that the mapping does not have.  "C3", "A9" are the two bytes of    *)
(* the one character U+00E9.                                               *)
(***************************************************************************)
MaxVariedFields == 2

FieldInputs ==
    LET FieldNames == DOMAIN keys
        Absent == [t |-> "absent", s |-> << >>, m |-> << >>]
        Bytes(b, n) == StringValue([k \in 1..n |-> b])
        TwoByteChars(n) == StringValue([k \in 1..(2 * n) |-> IF k % 2 = 1 THEN "C3" ELSE "A9"])
        Pair(keyIsString, valueIsString) ==
            [keyIsString |-> keyIsString, valueIsString |-> valueIsString]
        \* a valid mapping: name and description only
        Baseline ==
            [f \in FieldNames |->
                CASE f = "name" -> StringValue(DirName)
                  [] f = "description" -> StringValue(<< "d" >>)
                  [] OTHER -> Absent]
        Values ==
            [name |-> {Absent, IntValue, Bytes("a", 0), StringValue(<< "B", "a", "d", "-" >>),
                       StringValue(<< "-", "a" >>), StringValue(<< "a", "-" >>),
                       StringValue(<< "a", "-", "-", "b" >>), Bytes("a", 64), Bytes("a", 65),
                       TwoByteChars(33)},
             description |-> {Absent, IntValue, Bytes("x", 0), Bytes("x", 1024), Bytes("x", 1025),
                              TwoByteChars(513)},
             compatibility |-> {IntValue, Bytes("x", 0), Bytes("x", 1), Bytes("x", 500),
                                Bytes("x", 501), TwoByteChars(251)},
             license |-> {IntValue, StringValue(<< "M", "I", "T" >>)},
             metadata |-> {StringValue(<< "x" >>), ListValue,
                           MapValue(<< Pair(TRUE, TRUE) >>), MapValue(<< Pair(TRUE, FALSE) >>),
                           MapValue(<< Pair(FALSE, TRUE) >>),
                           MapValue(<< Pair(FALSE, TRUE), Pair(TRUE, FALSE) >>),
                           MapValue(<< Pair(TRUE, FALSE), Pair(TRUE, TRUE), Pair(TRUE, FALSE) >>)},
             allowedTools |-> {ListValue, Bytes(" ", 0), Bytes(" ", 2),
                               StringValue(<< "R", "e", "a", "d" >>)}]
        \* the keys sit on consecutive lines from line 2 on
        KeyOrder == << "name", "description", "compatibility", "license", "metadata",
                       "allowedTools" >>
        Made(path, chosen) ==
            [path |-> path,
             data |-> [k \in {keys[f] : f \in {g \in FieldNames : chosen[g] # Absent}} |->
                          chosen[CHOOSE f \in FieldNames : keys[f] = k]],
             lines |-> [k \in {keys[f] : f \in {g \in FieldNames : chosen[g] # Absent}} |->
                          1 + Cardinality({j \in 1..6 :
                                  /\ chosen[KeyOrder[j]] # Absent
                                  /\ j <= CHOOSE i \in 1..6 : keys[KeyOrder[i]] = k})]]
    IN  UNION {
          { Made(path, [f \in FieldNames |-> IF f \in varied THEN v[f] ELSE Baseline[f]]) :
              path \in {Root, << << "w" >>, << "a", "-" >> >>},
              v \in {w \in [varied -> UNION {Values[f] : f \in varied}] :
                        \A f \in varied : w[f] \in Values[f]} } :
          varied \in {fs \in SUBSET FieldNames : Cardinality(fs) <= MaxVariedFields} }

InitFields ==
    /\ input \in FieldInputs
    /\ outcome = [runs |-> 0, result |-> EmptyResult, field |-> << >>, alone |-> EmptyResult]
    /\ env = [cwdOk |-> FALSE, cwd |-> << >>, nodes |-> NoNodes]
    /\ arg = << >>
    /\ calls = << >>

\* ValidateSkill, lines 195-200, on the mapping and then on the mapping cut
\* down to the field `key`
CheckFields ==
    LET ran(result) == [result EXCEPT !.Path = input.path]
        cut(key) == [k \in DOMAIN input.data \cap {key} |-> input.data[k]]
    IN  /\ \/ /\ outcome.runs = 0
              /\ \E first \in metadataFirsts(input.data) :
                    outcome' = [outcome EXCEPT
                        !.runs = 1,
                        !.result = fieldRules(ran(EmptyResult), input.data, input.lines,
                                              input.path, first)]
           \/ /\ outcome.runs = 1
              /\ \E key \in knownKeys : \E first \in metadataFirsts(cut(key)) :
                    outcome' = [outcome EXCEPT
                        !.runs = 2,
                        !.field = key,
                        !.alone = fieldRules(ran(EmptyResult), cut(key), input.lines,
                                             input.path, first)]
        /\ UNCHANGED << env, arg, calls, input >>

FieldSpec == InitFields /\ [][CheckFields]_vars

(***************************************************************************)
(* The command (cmd/sklint, main).  An input is one invocation of the      *)
(* process:                                                                *)
(*   flags      what flag.Parse meets on the command line: "ok", "help"    *)
(*              (-h or -help, which are not defined) or "undefined" (a     *)
(*              flag that is not defined, or a value that does not parse); *)
(*              flag.CommandLine is made with flag.ExitOnError, so Parse   *)
(*              prints the usage to stderr and exits, with 0 for help and  *)
(*              with 2 otherwise,                                          *)
(*   nArg, schemaVersion, format, output   the arguments and flag values,  *)
(*   validated  what ValidateSkill returns for the path,                   *)
(*   renderErr  the error of report.RenderJSON,                            *)
(*   writeErr   the error of os.WriteFile or os.Stdout.Write.              *)
(* The outcome is whether ValidateSkill was called, where the report went, *)
(* and the exit: its code and what was written to stderr.                  *)
(***************************************************************************)
\* an exitWithError that exits with code 1
exitWithErrorCodeOne(message) == [code |-> 1, stderr |-> << message >>]

exitWithError(message) == [code |-> 2, stderr |-> << message >>]

CliInputs ==
    [flags : {"ok", "help", "undefined"},
     nArg : 0..2,
     schemaVersion : {1, 2},
     format : {"text", "json", "xml"},
     output : {"", "report.json"},
     validated : {[err |-> "nil", Valid |-> TRUE], [err |-> "nil", Valid |-> FALSE],
                  [err |-> errno.EACCES, Valid |-> FALSE]},
     renderErr : {"nil", "json: unsupported value"},
     writeErr : {"nil", errno.EACCES}]

InitCli ==
    /\ input \in CliInputs
    /\ outcome = [pc |-> "running", called |-> FALSE, written |-> "none",
                  exit |-> [code |-> -1, stderr |-> << >>]]
    /\ env = [cwdOk |-> FALSE, cwd |-> << >>, nodes |-> NoNodes]
    /\ arg = << >>
    /\ calls = << >>

\* main, from flag.Parse to os.Exit
main ==
    /\ outcome.pc = "running"
    /\ LET exited(called, written, exit) ==
               [pc |-> "exited", called |-> called, written |-> written, exit |-> exit]
           \* lines 65-78
           write(result) ==
               IF input.writeErr # "nil" THEN exited(TRUE, "none", exitWithError(input.writeErr))
               ELSE exited(TRUE, IF input.output # "" THEN "file" ELSE "stdout",
                           [code |-> IF result.Valid THEN 0 ELSE 1, stderr |-> << >>])
           \* lines 54-63
           render(result) ==
               IF input.format = "json" /\ input.renderErr # "nil"
               THEN exited(TRUE, "none", exitWithError(input.renderErr))
               ELSE write(result)
           \* lines 49-52
           validate(result) ==
               IF result.err # "nil" THEN exited(TRUE, "none", exitWithError(result.err))
               ELSE render(result)
       IN  outcome' =
               \* line 28
               IF input.flags = "help"
               THEN exited(FALSE, "none", [code |-> 0, stderr |-> << "Usage of sklint:" >>])
               ELSE IF input.flags = "undefined"
               THEN exited(FALSE, "none",
                           [code |-> 2, stderr |-> << "flag provided but not defined" >>])
               \* lines 30-38
               ELSE IF input.nArg # 1
               THEN exited(FALSE, "none", exitWithError("Usage: sklint <path>"))
               ELSE IF input.schemaVersion # 1
               THEN exited(FALSE, "none", exitWithError("Unsupported schema version: %d"))
               ELSE IF input.format # "text" /\ input.format # "json"
               THEN exited(FALSE, "none", exitWithError("Unsupported format: %s"))
               ELSE validate(input.validated)
    /\ UNCHANGED << env, arg, calls, input >>

CliSpec == InitCli /\ [][main]_vars

(***************************************************************************)
(* The properties.  A call has returned when its pc is "done"; its result  *)
(* and err are then what ValidateSkill returned.                           *)
(***************************************************************************)
Done(i) == calls[i].pc = "done"

ReturnedNil(i) == Done(i) /\ calls[i].err = "nil"

CodesOf(findings) == {findings[k].Code : k \in 1..Len(findings)}

HasFinding(findings, code, file) ==
    \E k \in 1..Len(findings) : findings[k].Code = code /\ findings[k].File = file

CountOf(findings, among) == Cardinality({k \in 1..Len(findings) : findings[k].Code \in among})

\* what the filesystem holds at a path: "absent", "dir", "file", "symlink" or "broken"
KindAt(path) == IF path \in DOMAIN env.nodes THEN env.nodes[path].kind ELSE "absent"

LockedAt(path) == path \in DOMAIN env.nodes /\ env.nodes[path].locked

HasEntries(path) ==
    \E p \in DOMAIN env.nodes : Len(p) = Len(path) + 1 /\ SubSeq(p, 1, Len(path)) = path

\* the path argument names the skill directory /w/sk and can be resolved
PathResolves == env.cwdOk \/ arg = AbsoluteArg

SkillDirectoryReached == PathResolves /\ KindAt(Root) = "dir"

SkillMDPath == Append(Root, SegSkillMD)

SiblingPath(name) == Append(Root, SiblingSegment(name))

ValidAsSpecified(c) ==
    c.result.Valid = (Len(c.result.Errors) = 0
                      /\ (~c.opts.Strict \/ Len(c.result.Warnings) = 0))

\* C1 as stated: on every return path of ValidateSkill, the returns with a
\* runtime error included, Valid = (Errors is empty and (not Strict or
\* Warnings is empty)).
C1_ValidOnEveryReturnPath == \A i \in Calls : Done(i) => ValidAsSpecified(calls[i])

\* C1 amended: every Result returned with a nil error satisfies Valid = (Errors
\* is empty and (not Strict or Warnings is empty)).
C1_ValidOnNilError == \A i \in Calls : ReturnedNil(i) => ValidAsSpecified(calls[i])

\* C1 witness: a strict run returned, without error, a Result that has no
\* error and a warning, and is not valid.
C1_StrictWarningInvalid ==
    \E i \in Calls :
        /\ ReturnedNil(i)
        /\ calls[i].opts.Strict
        /\ calls[i].result.Errors = << >>
        /\ calls[i].result.Warnings # << >>
        /\ ~calls[i].result.Valid

\* C2 as stated: two runs on the same input with the same Options return
\* identical Errors and Warnings sequences, messages included.
C2_RepeatedRunSameFindings ==
    (ReturnedNil(1) /\ ReturnedNil(2) /\ calls[1].opts = calls[2].opts)
        => /\ calls[1].result.Errors = calls[2].result.Errors
           /\ calls[1].result.Warnings = calls[2].result.Warnings

\* the composite key of the ordering: File (empty first), then Line (0, the
\* unknown line, after every known line), then Code
LineNotAfter(x, y) == x = y \/ y = 0 \/ (x # 0 /\ x < y)

KeyNotAfter(a, b) ==
    \/ StrLess(FileOrder, a.File, b.File)
    \/ a.File = b.File /\ a.Line # b.Line /\ LineNotAfter(a.Line, b.Line)
    \/ a.File = b.File /\ a.Line = b.Line
       /\ (a.Code = b.Code \/ StrLess(CodeOrder, a.Code, b.Code))

NonDecreasing(findings) ==
    \A k \in 1..(Len(findings) - 1) : KeyNotAfter(findings[k], findings[k + 1])

\* C3: in every Result returned without a runtime error, Errors and Warnings
\* are each in non-decreasing order of (File, Line with unknown last, Code).
C3_FindingsOrdered ==
    \A i \in Calls :
        ReturnedNil(i) => /\ NonDecreasing(calls[i].result.Errors)
                          /\ NonDecreasing(calls[i].result.Warnings)

\* C3 witness: a returned Errors list in which the sort moved findings: an
\* error of SKILL.md with a known line stands before one of unknown line, and
\* the error of the assets directory, discovered first, stands last.
C3_SortedAgainstDiscovery ==
    \E i \in Calls :
        /\ ReturnedNil(i)
        /\ LET errors == calls[i].result.Errors
           IN  /\ \E k \in 1..(Len(errors) - 1) :
                     /\ errors[k].File = FileSkillMD /\ errors[k + 1].File = FileSkillMD
                     /\ errors[k].Line # 0 /\ errors[k + 1].Line = 0
               /\ Len(errors) > 1
               /\ errors[Len(errors)].Code = codes.codeAssetsNotDir

\* C4 as stated: when the run with Strict=false has no error and a warning,
\* the run with Strict=true and the other options equal is not valid, where
\* the first was valid, and returns exactly the same Errors and Warnings.
C4_StrictChangesOnlyValid ==
    (/\ ReturnedNil(1) /\ ReturnedNil(2)
     /\ ~calls[1].opts.Strict
     /\ calls[1].result.Errors = << >>
     /\ calls[1].result.Warnings # << >>)
        => /\ calls[1].result.Valid
           /\ ~calls[2].result.Valid
           /\ calls[2].result.Errors = calls[1].result.Errors
           /\ calls[2].result.Warnings = calls[1].result.Warnings


\* the skill directory and everything in it can be read: no stat fails with
\* an error other than not-exist and no open is refused
ReadableSkillDirectory ==
    /\ SkillDirectoryReached
    /\ \A p \in DOMAIN env.nodes : env.nodes[p].kind # "broken" /\ ~env.nodes[p].locked

\* C5 as stated: for every readable skill directory, whatever the bytes and
\* the file kind of SKILL.md, ValidateSkill returns a nil error and a Result
\* finalized once.
C5_ContentNeverRuntimeError ==
    \A i \in Calls :
        (Done(i) /\ ReadableSkillDirectory) => calls[i].err = "nil" /\ calls[i].finalized = 1

\* a filesystem call fails with an error other than not-exist
Fails(err) == err # "nil" /\ err # errno.ENOENT

\* the run met such a failure on the input path, on a sibling directory (its
\* stat or its listing), on SKILL.md (its lstat or its read) or on a
\* referenced file (ops holds the lstat calls of checkRef)
FailureMet(i) ==
    \/ ~PathResolves
    \/ PathResolves /\ Fails(Stat(env.nodes, Root).err)
    \/ /\ SkillDirectoryReached
       /\ \/ \E n \in SiblingSet :
                \/ Fails(Stat(env.nodes, SiblingPath(n)).err)
                \/ KindAt(SiblingPath(n)) = "dir" /\ LockedAt(SiblingPath(n))
          \/ Fails(Lstat(env.nodes, SkillMDPath).err)
          \/ KindAt(SkillMDPath) = "file" /\ LockedAt(SkillMDPath)
    \/ \E k \in 1..Len(calls[i].ops) :
          calls[i].ops[k][1] = "Lstat" /\ Fails(Lstat(env.nodes, calls[i].ops[k][2]).err)

\* C6 as stated: a filesystem failure other than not-found met during a run,
\* on the input path, SKILL.md, a sibling directory or a referenced file,
\* makes ValidateSkill return a non-nil error.
C6_FailuresPropagate == \A i \in Calls : (Done(i) /\ FailureMet(i)) => calls[i].err # "nil"

OnlyError(result, code) ==
    /\ Len(result.Errors) = 1
    /\ result.Errors[1].Code = code
    /\ result.Errors[1].Level = LevelError
    /\ result.Warnings = << >>
    /\ ~result.Valid

SiblingErrorCode(name) ==
    CASE name = "scripts" -> codes.codeScriptsNotDir
      [] name = "references" -> codes.codeReferencesNotDir
      [] name = "assets" -> codes.codeAssetsNotDir

SiblingWarningCode(name) ==
    CASE name = "scripts" -> codes.codeScriptsDirEmpty
      [] name = "references" -> codes.codeReferencesDirEmpty
      [] name = "assets" -> codes.codeAssetsDirEmpty

SiblingCodes ==
    {SiblingErrorCode(n) : n \in SiblingSet} \cup {SiblingWarningCode(n) : n \in SiblingSet}

\* the findings of the three sibling-directory checks are in the Result: an
\* error for a sibling that is a file and, unless warnings are suppressed, a
\* warning for one that is an empty directory
SiblingFindingsPresent(c) ==
    \A n \in SiblingSet :
        /\ KindAt(SiblingPath(n)) = "file" =>
              HasFinding(c.result.Errors, SiblingErrorCode(n), n)
        /\ (/\ KindAt(SiblingPath(n)) = "dir"
            /\ ~LockedAt(SiblingPath(n))
            /\ ~HasEntries(SiblingPath(n))
            /\ ~c.opts.NoWarn) =>
              HasFinding(c.result.Warnings, SiblingWarningCode(n), n)

\* the Result ends with the terminal error `code`: it is the only finding
\* that is not one of the sibling-directory checks
EndsWith(c, code) ==
    /\ c.err = "nil"
    /\ CountOf(c.result.Errors, {code}) = 1
    /\ CodesOf(c.result.Errors) \subseteq SiblingCodes \cup {code}
    /\ CodesOf(c.result.Warnings) \subseteq SiblingCodes
    /\ ~c.result.Valid

\* C8: when SKILL.md is absent the run ends with the error SKILL_MD_MISSING,
\* when it is a directory with SKILL_MD_NOT_FILE; no frontmatter, field or
\* reference finding is produced and the findings of the three
\* sibling-directory checks are in the Result.
C8_SkillMDErrorsTerminal ==
    \A i \in Calls :
        (Done(i) /\ SkillDirectoryReached) =>
            /\ KindAt(SkillMDPath) = "absent" =>
                  EndsWith(calls[i], codes.codeSkillMDMissing) /\ SiblingFindingsPresent(calls[i])
            /\ KindAt(SkillMDPath) = "dir" =>
                  EndsWith(calls[i], codes.codeSkillMDNotFile) /\ SiblingFindingsPresent(calls[i])

\* C8 witness: SKILL.md is absent beside a sibling that is a file and one
\* that is an empty directory; the run returned SKILL_MD_MISSING together
\* with the error and the warning of the two siblings.
C8_MissingWithSiblingFindings ==
    \E i \in Calls : \E n, m \in SiblingSet :
        /\ ReturnedNil(i)
        /\ KindAt(SkillMDPath) = "absent"
        /\ HasFinding(calls[i].result.Errors, codes.codeSkillMDMissing, FileSkillMD)
        /\ HasFinding(calls[i].result.Errors, SiblingErrorCode(n), n)
        /\ HasFinding(calls[i].result.Warnings, SiblingWarningCode(m), m)

FrontmatterFailureCodes ==
    {codes.codeFrontmatterStart, codes.codeFrontmatterEnd, codes.codeFrontmatterEmpty,
     codes.codeFrontmatterInvalidYAML, codes.codeFrontmatterNotMapping}

\* the findings of the field rules, the unknown keys, the body and the references
FieldRuleCodes ==
    {codes.codeNameMissing, codes.codeNameNotString, codes.codeNameTooShort, codes.codeNameTooLong,
     codes.codeNameInvalidChars, codes.codeNameStartsWithHyphen, codes.codeNameEndsWithHyphen,
     codes.codeNameConsecutiveHyphens, codes.codeNameMismatchDirectory,
     codes.codeDescriptionMissing, codes.codeDescriptionNotString, codes.codeDescriptionTooShort,
     codes.codeDescriptionTooLong, codes.codeCompatibilityNotString, codes.codeCompatibilityTooShort,
     codes.codeCompatibilityTooLong, codes.codeLicenseNotString, codes.codeMetadataNotObject,
     codes.codeMetadataValueNotString, codes.codeAllowedToolsNotString, codes.codeAllowedToolsEmpty}

DocumentCodes ==
    {codes.codeUnknownTopLevelKey, codes.codeSkillMDTooLongLines, codes.codeSkillMDMissingBody,
     codes.codeRefContainsDotDot, codes.codeRefTooDeep, codes.codeRefMissingFile, codes.codeRefEscapesRoot}

FrontmatterFailed(c) == CodesOf(c.result.Errors) \cap FrontmatterFailureCodes # {}

\* the SKILL.md symlink warning, collected unless warnings are suppressed
SymlinkWarningPresent(c) ==
    (KindAt(SkillMDPath) = "symlink" /\ ~c.opts.NoWarn) =>
        HasFinding(c.result.Warnings, codes.codeSkillMDSymlink, FileSkillMD)

\* C9: when the extraction or the decoding of the frontmatter fails, the
\* failure is the last finding made: the Result holds no field-rule,
\* unknown-key, body or reference finding, and it still holds the
\* sibling-directory findings and the SKILL.md symlink warning collected
\* before the failure.
C9_FrontmatterFailureTerminal ==
    \A i \in Calls :
        (Done(i) /\ FrontmatterFailed(calls[i])) =>
            /\ calls[i].err = "nil"
            /\ CountOf(calls[i].result.Errors, FrontmatterFailureCodes) = 1
            /\ (CodesOf(calls[i].result.Errors) \cup CodesOf(calls[i].result.Warnings))
                  \cap (FieldRuleCodes \cup DocumentCodes) = {}
            /\ SiblingFindingsPresent(calls[i])
            /\ SymlinkWarningPresent(calls[i])

\* C9 witness: SKILL.md is a symlink to a file whose frontmatter is not valid
\* YAML, beside a sibling that is a file and an empty sibling directory; the
\* run returned FRONTMATTER_INVALID_YAML with the symlink warning and the
\* findings of both siblings.
C9_InvalidYAMLKeepsEarlierFindings ==
    \E i \in Calls : \E n, m \in SiblingSet :
        /\ ReturnedNil(i)
        /\ HasFinding(calls[i].result.Errors, codes.codeFrontmatterInvalidYAML, FileSkillMD)
        /\ HasFinding(calls[i].result.Warnings, codes.codeSkillMDSymlink, FileSkillMD)
        /\ HasFinding(calls[i].result.Errors, SiblingErrorCode(n), n)
        /\ HasFinding(calls[i].result.Warnings, SiblingWarningCode(m), m)

\* C10 as stated: whenever SKILL.md is a symlink, the Result holds the warning
\* SKILL_MD_SYMLINK, for every combination of Options.
C10_SymlinkAlwaysWarned ==
    \A i \in Calls :
        (Done(i) /\ SkillDirectoryReached /\ KindAt(SkillMDPath) = "symlink") =>
            HasFinding(calls[i].result.Warnings, codes.codeSkillMDSymlink, FileSkillMD)

\* C10 amended: whenever SKILL.md is a symlink and warnings are not
\* suppressed (NoWarn is false), the Result holds the warning
\* SKILL_MD_SYMLINK exactly once, whatever the other options and whether or
\* not the link target is accepted.
C10_SymlinkWarnedUnlessNoWarn ==
    \A i \in Calls :
        (/\ Done(i) /\ SkillDirectoryReached
         /\ KindAt(SkillMDPath) = "symlink"
         /\ ~calls[i].opts.NoWarn) =>
            /\ HasFinding(calls[i].result.Warnings, codes.codeSkillMDSymlink, FileSkillMD)
            /\ CountOf(calls[i].result.Warnings, {codes.codeSkillMDSymlink}) = 1

\* C10 witness: SKILL.md is a symlink whose target is rejected; the run
\* returned SKILL_MD_SYMLINK_ESCAPES_ROOT and the warning SKILL_MD_SYMLINK.
C10_RejectedLinkStillWarned ==
    \E i \in Calls :
        /\ ReturnedNil(i)
        /\ KindAt(SkillMDPath) = "symlink"
        /\ HasFinding(calls[i].result.Errors, codes.codeSkillMDSymlinkEscapes, FileSkillMD)
        /\ HasFinding(calls[i].result.Warnings, codes.codeSkillMDSymlink, FileSkillMD)

\* where the symlink SKILL.md leads: [err, path], path with every link replaced
SkillMDTarget == EvalSymlinks(env.nodes, SkillMDPath)

\* a resolved path lies in the skill directory /w/sk
InSkillDirectory(path) == Len(path) >= Len(Root) /\ SubSeq(path, 1, Len(Root)) = Root

\* C11 as stated: with SKILL.md a symlink that resolves, and FollowSymlinks
\* false, the run ends with SKILL_MD_SYMLINK_ESCAPES_ROOT, the target unread,
\* if and only if the resolved target lies outside the skill directory,
\* however the directory was reached; with the target inside, validation
\* proceeds on the target.  With FollowSymlinks true the error never appears.
C11_EscapeIffTargetOutside ==
    \A i \in Calls :
        (/\ Done(i) /\ SkillDirectoryReached
         /\ KindAt(SkillMDPath) = "symlink"
         /\ SkillMDTarget.err = "nil") =>
            LET escapes == HasFinding(calls[i].result.Errors, codes.codeSkillMDSymlinkEscapes,
                                      FileSkillMD)
            IN  IF calls[i].opts.FollowSymlinks THEN ~escapes
                ELSE IF InSkillDirectory(SkillMDTarget.path)
                THEN ~escapes /\ calls[i].skillPath = SkillMDTarget.path
                ELSE /\ escapes
                     /\ EndsWith([calls[i] EXCEPT !.result.Warnings = << >>],
                                 codes.codeSkillMDSymlinkEscapes)
                     /\ calls[i].skillPath = << >>
                     /\ calls[i].fm = NoFrontmatter

\* the findings of one level that a sibling directory produced
SiblingFindings(findings, name, code) ==
    Cardinality({k \in 1..Len(findings) : findings[k].File = name /\ findings[k].Code = code})

Parsed == outcome.err # "pending"

EndedByLineFeed == input.term # << "\r" >>

ContentLines ==
    IF input.bom < 2 THEN input.lines ELSE [input.lines EXCEPT ![1] = BOM \o @]

\* the lines after the first that are exactly '---'
LaterDelimiters == {j \in 2..Len(ContentLines) : ContentLines[j] = Delimiter}

ClosingLine == CHOOSE j \in LaterDelimiters : \A k \in LaterDelimiters : j <= k

Blank(line) == \A k \in 1..Len(line) : line[k] \in SpaceBytes

\* lines joined by single line feeds
RECURSIVE TextOf(_)
TextOf(lines) ==
    IF lines = << >> THEN << >>
    ELSE IF Len(lines) = 1 THEN lines[1]
    ELSE lines[1] \o << "\n" >> \o TextOf(Tail(lines))

\* C13 as stated, for documents whose lines end in LF or CRLF: the error is
\* start-missing iff there is no line or the first line is not exactly '---';
\* otherwise end-missing iff no later line is exactly '---'; otherwise empty
\* iff the lines between the two delimiters are all empty or white space; in
\* every other case ParseFrontmatter succeeds.
C13_ErrorClassification ==
    (Parsed /\ EndedByLineFeed) =>
        outcome.err =
            IF ContentLines = << >> THEN ErrFrontmatterStartMissing
            ELSE IF ContentLines[1] # Delimiter THEN ErrFrontmatterStartMissing
            ELSE IF LaterDelimiters = {} THEN ErrFrontmatterEndMissing
            ELSE IF \A j \in 2..(ClosingLine - 1) : Blank(ContentLines[j])
            THEN ErrFrontmatterEmpty
            ELSE "nil"

\* C14: for every document ParseFrontmatter accepts, YAML is the lines
\* strictly between the opening delimiter and the first later delimiter,
\* joined by line feeds, Body the lines after that delimiter, joined by line
\* feeds (empty if there is none), LineCount the number of lines of the
\* document and YAMLStartLine 2.
C14_AcceptedFields ==
    (Parsed /\ outcome.err = "nil") =>
        /\ ContentLines[1] = Delimiter
        /\ LaterDelimiters # {}
        /\ outcome.fm.YAML = TextOf(SubSeq(ContentLines, 2, ClosingLine - 1))
        /\ outcome.fm.Body = TextOf(SubSeq(ContentLines, ClosingLine + 1, Len(ContentLines)))
        /\ outcome.fm.LineCount = Len(ContentLines)
        /\ outcome.fm.YAMLStartLine = 2

\* C14 witness: an accepted document behind a byte-order mark, its lines
\* ended by CRLF, with two lines of frontmatter, the second one blank.
C14_AcceptedBehindMark ==
    /\ Parsed /\ outcome.err = "nil"
    /\ input.bom = 1
    /\ input.term = << "\r", "\n" >>
    /\ outcome.fm.YAML = << "a", "\n", " " >>
    /\ outcome.fm.Body = << >>
    /\ outcome.fm.LineCount = 4

Extract(parsed) ==
    << parsed.err, parsed.fm.YAML, parsed.fm.Body, parsed.fm.LineCount >>

\* C16 as stated: two documents made of the same lines that differ only in
\* the line terminator, LF, CRLF or lone CR, yield the same error or the
\* same YAML, Body and LineCount.
C16_TerminatorIndependent ==
    Parsed =>
        \A t \in {<< "\n" >>, << "\r", "\n" >>, << "\r" >>} :
            Extract(ParseFrontmatter(Document([input EXCEPT !.term = t]))) = Extract(outcome)

(***************************************************************************)
(* The field rules (under FieldSpec).                                      *)
(***************************************************************************)
FieldsChecked == outcome.runs >= 1

HasKey(key) == key \in DOMAIN input.data

IsString(key) == HasKey(key) /\ input.data[key].t = "string"

Text(key) == input.data[key].s

DirectoryBasename == input.path[Len(input.path)]

\* how many errors of the run on the whole mapping carry the code
Reported(code) ==
    Cardinality({k \in 1..Len(outcome.result.Errors) : outcome.result.Errors[k].Code = code})

NameRuleCodes ==
    {codes.codeNameTooShort, codes.codeNameTooLong, codes.codeNameInvalidChars,
     codes.codeNameStartsWithHyphen, codes.codeNameEndsWithHyphen,
     codes.codeNameConsecutiveHyphens}

\* C17 as stated: whenever the mapping has a 'name' that does not equal the
\* basename of the directory, the Result holds exactly one
\* NAME_MISMATCH_DIRECTORY error, whatever the other sub-rules of name (its
\* type included) and the other fields yield.
C17_MismatchWheneverNameDiffers ==
    (/\ FieldsChecked
     /\ HasKey(keys.name)
     /\ ~(IsString(keys.name) /\ Text(keys.name) = DirectoryBasename))
        => Reported(codes.codeNameMismatchDirectory) = 1

\* C17 amended: the Result holds exactly one NAME_MISMATCH_DIRECTORY error
\* when 'name' is a string that differs from the basename of the directory,
\* whatever its other sub-rules and the other fields yield, and none when
\* 'name' is absent, is not a string, or equals the basename.
C17_MismatchWhenStringDiffers ==
    FieldsChecked =>
        /\ Reported(codes.codeNameMismatchDirectory)
              = IF IsString(keys.name) /\ Text(keys.name) # DirectoryBasename THEN 1 ELSE 0
        /\ codes.codeNameMismatchDirectory \notin CodesOf(outcome.result.Warnings)

\* C17 witness: the name 'Bad-' in the directory sk, with no description:
\* one NAME_MISMATCH_DIRECTORY beside NAME_INVALID_CHARS,
\* NAME_ENDS_WITH_HYPHEN and DESCRIPTION_MISSING.
C17_MismatchAmongOtherErrors ==
    /\ FieldsChecked
    /\ DirectoryBasename = DirName
    /\ IsString(keys.name) /\ Text(keys.name) = << "B", "a", "d", "-" >>
    /\ Reported(codes.codeNameMismatchDirectory) = 1
    /\ {codes.codeNameInvalidChars, codes.codeNameEndsWithHyphen, codes.codeDescriptionMissing}
          \subseteq CodesOf(outcome.result.Errors)

\* 1 when the condition holds, else 0
Once(cond) == IF cond THEN 1 ELSE 0

CodesOfField(key) ==
    CASE key = keys.name ->
            NameRuleCodes \cup {codes.codeNameMissing, codes.codeNameNotString,
                                codes.codeNameMismatchDirectory}
      [] key = keys.description ->
            {codes.codeDescriptionMissing, codes.codeDescriptionNotString,
             codes.codeDescriptionTooShort, codes.codeDescriptionTooLong}
      [] key = keys.compatibility ->
            {codes.codeCompatibilityNotString, codes.codeCompatibilityTooShort,
             codes.codeCompatibilityTooLong}
      [] key = keys.license -> {codes.codeLicenseNotString}
      [] key = keys.metadata -> {codes.codeMetadataNotObject, codes.codeMetadataValueNotString}
      [] key = keys.allowedTools -> {codes.codeAllowedToolsNotString, codes.codeAllowedToolsEmpty}

\* the findings of a Result that carry one of the codes: how many of each
\* code, and their messages
FindingsAmong(result, among) ==
    [c \in among |->
        << Cardinality({k \in 1..Len(result.Errors) : result.Errors[k].Code = c}),
           {result.Errors[k].Message : k \in {j \in 1..Len(result.Errors) :
                                                result.Errors[j].Code = c}} >>]

\* C19 as stated: two mappings that agree on a field (here the mapping and
\* the mapping cut down to that field) get the same findings for the field.
C19_FieldFindingsIndependent ==
    outcome.runs = 2 =>
        FindingsAmong(outcome.result, CodesOfField(outcome.field))
            = FindingsAmong(outcome.alone, CodesOfField(outcome.field))

\* the bytes 80-BF continue a character of UTF-8; the others start one
ContinuationBytes == {"A9", "BB", "BF"}

Characters(s) == Cardinality({k \in 1..Len(s) : s[k] \notin ContinuationBytes})

\* the length findings of a string field, against its number of characters
LengthFindings(key, tooShort, tooLong, maximum) ==
    IsString(key) =>
        /\ Reported(tooShort) = Once(Characters(Text(key)) = 0)
        /\ Reported(tooLong) = Once(Characters(Text(key)) > maximum)

\* C20 as stated: a description that is a string yields DESCRIPTION_TOO_SHORT
\* iff it has 0 characters and DESCRIPTION_TOO_LONG iff it has more than 1024
\* characters, a compatibility likewise with 500; an absent description
\* yields DESCRIPTION_MISSING, an absent compatibility no finding.
C20_LengthInCharacters ==
    FieldsChecked =>
        /\ LengthFindings(keys.description, codes.codeDescriptionTooShort,
                          codes.codeDescriptionTooLong, 1024)
        /\ LengthFindings(keys.compatibility, codes.codeCompatibilityTooShort,
                          codes.codeCompatibilityTooLong, 500)
        /\ ~HasKey(keys.description) =>
              /\ Reported(codes.codeDescriptionMissing) = 1
              /\ \A c \in CodesOfField(keys.description) \ {codes.codeDescriptionMissing} :
                    Reported(c) = 0
        /\ ~HasKey(keys.compatibility) =>
              \A c \in CodesOfField(keys.compatibility) : Reported(c) = 0

\* the value is a mapping (a Go map, whatever the type of its keys)
IsMapping(key) == HasKey(key) /\ input.data[key].t \in {"map[string]any", "map[any]any"}

StringKeys(key) == \A k \in 1..Len(input.data[key].m) : input.data[key].m[k].keyIsString

NonStringValues(key) ==
    {k \in 1..Len(input.data[key].m) : ~input.data[key].m[k].valueIsString}

\* C21: an absent 'metadata' yields no finding; a value that is not a mapping
\* exactly one METADATA_NOT_OBJECT; a mapping whose keys and values are all
\* strings no finding; a mapping with string keys and at least one value
\* that is not a string exactly one METADATA_VALUE_NOT_STRING, however many
\* such values there are; and never any other metadata finding beside these.
C21_MetadataFindings ==
    FieldsChecked =>
        LET notObject == Reported(codes.codeMetadataNotObject)
            notString == Reported(codes.codeMetadataValueNotString)
        IN  /\ ~HasKey(keys.metadata) => notObject = 0 /\ notString = 0
            /\ (HasKey(keys.metadata) /\ ~IsMapping(keys.metadata))
                  => notObject = 1 /\ notString = 0
            /\ (IsMapping(keys.metadata) /\ StringKeys(keys.metadata))
                  => /\ notObject = 0
                     /\ notString = Once(NonStringValues(keys.metadata) # {})

\* C21 witness: a mapping with string keys, two of whose three values are not
\* strings, reported with one METADATA_VALUE_NOT_STRING.
C21_TwoBadValuesOneError ==
    /\ FieldsChecked
    /\ IsMapping(keys.metadata) /\ StringKeys(keys.metadata)
    /\ Cardinality(NonStringValues(keys.metadata)) = 2
    /\ Reported(codes.codeMetadataValueNotString) = 1
    /\ Reported(codes.codeMetadataNotObject) = 0

(***************************************************************************)
(* The unknown keys (under Spec).                                          *)
(***************************************************************************)
\* the document that SKILL.md leads to
SkillMDDocument ==
    IF SkillMDTarget.err = "nil" /\ SkillMDTarget.path \in DOMAIN env.nodes
    THEN env.nodes[SkillMDTarget.path].doc
    ELSE NoDoc

\* the top-level keys written in the frontmatter of the document
WrittenKeys ==
    LET written(entries) == {entries[k].key : k \in 1..Len(entries)}
    IN  IF SkillMDDocument.kind # "fm"
        THEN IF SkillMDDocument.name \in {"longline", "manylines"}
             THEN written(Entries.valid) ELSE {}
        ELSE CASE SkillMDDocument.name = "valid" -> written(Entries.valid)
               [] SkillMDDocument.name = "badname" -> written(Entries.badName)
               [] SkillMDDocument.name = "unknownkeys" -> written(Entries.unknownKeys)
               [] SkillMDDocument.name = "wrongtypes" -> written(Entries.wrongTypes)
               [] OTHER -> {}

\* the run decoded the frontmatter to a mapping and went on to the field rules
Decoded(i) ==
    /\ ReturnedNil(i)
    /\ calls[i].fm # NoFrontmatter
    /\ ~FrontmatterFailed(calls[i])

\* the text lists the keys of the set, each once, in ascending bytewise
\* order, separated by ", "
ListsInOrder(text, set) ==
    \E order \in [1..Cardinality(set) -> set] :
        /\ \A a, b \in 1..Cardinality(set) : a < b => BytesLess(order[a], order[b])
        /\ text = concat([k \in 1..Cardinality(set) |->
                             IF k = 1 THEN order[k] ELSE << ",", " " >> \o order[k]],
                         1, Cardinality(set))

\* C22: a run that decoded the frontmatter holds exactly one
\* UNKNOWN_TOP_LEVEL_KEY warning, whose message lists all the unknown keys in
\* lexicographic order, when a top-level key is outside the known keys and
\* NoWarn is false; none when every key is known or NoWarn is true; and the
\* code never appears among the errors.
C22_UnknownKeysWarnedOnce ==
    \A i \in Calls :
        Decoded(i) =>
            LET unknown == WrittenKeys \ knownKeys
                found == {k \in 1..Len(calls[i].result.Warnings) :
                            calls[i].result.Warnings[k].Code = codes.codeUnknownTopLevelKey}
            IN  /\ WrittenKeys # {}
                /\ Cardinality(found) = Once(unknown # {} /\ ~calls[i].opts.NoWarn)
                /\ \A k \in found :
                      /\ Len(calls[i].result.Warnings[k].Message) = 2
                      /\ ListsInOrder(calls[i].result.Warnings[k].Message[2], unknown)
                /\ codes.codeUnknownTopLevelKey \notin CodesOf(calls[i].result.Errors)

\* C22 witness: the frontmatter writes the keys name, owner, description and
\* extra, in that order; the run returned no error and one warning that
\* lists "extra, owner".
C22_ExtraBeforeOwner ==
    \E i \in Calls : \E k \in 1..Len(calls[i].result.Warnings) :
        /\ Decoded(i)
        /\ SkillMDDocument.name = "unknownkeys"
        /\ calls[i].result.Errors = << >>
        /\ calls[i].result.Warnings[k].Code = codes.codeUnknownTopLevelKey
        /\ calls[i].result.Warnings[k].Message[2]
              = << "e", "x", "t", "r", "a", ",", " ", "o", "w", "n", "e", "r" >>
        /\ CountOf(calls[i].result.Warnings, {codes.codeUnknownTopLevelKey}) = 1

\* the frontmatter payload of the run: present, not blank, and the flow
\* mapping "{}", which decodes to a mapping without keys
EmptyMappingRead(i) ==
    /\ Done(i)
    /\ calls[i].fm # NoFrontmatter
    /\ calls[i].fm.YAML = << "{", "}" >>

\* C23: a payload that is present and decodes to a mapping with zero keys
\* yields a Result whose only frontmatter error is one FRONTMATTER_EMPTY, and
\* no run reports FRONTMATTER_EMPTY twice (once for an empty payload and once
\* for an empty mapping).
C23_EmptyMappingOneError ==
    \A i \in Calls :
        /\ EmptyMappingRead(i) =>
              /\ calls[i].err = "nil"
              /\ CountOf(calls[i].result.Errors, {codes.codeFrontmatterEmpty}) = 1
              /\ CountOf(calls[i].result.Errors, FrontmatterFailureCodes) = 1
        /\ Done(i) => CountOf(calls[i].result.Errors, {codes.codeFrontmatterEmpty}) <= 1

\* C23 witness: SKILL.md holds the frontmatter "{}"; the run returned the one
\* error FRONTMATTER_EMPTY and is not valid.
C23_EmptyMappingReported ==
    \E i \in Calls :
        /\ EmptyMappingRead(i)
        /\ SkillMDDocument = FrontmatterDoc("emptymapping", << 7 >>)
        /\ CodesOf(calls[i].result.Errors) = {codes.codeFrontmatterEmpty}
        /\ Len(calls[i].result.Errors) = 1
        /\ ~calls[i].result.Valid

(***************************************************************************)
(* The references (under Spec).                                            *)
(***************************************************************************)
\* the run validated the document to its end and scanned the body
Scanned(i) == Decoded(i)

\* the body of the document mentions the k-th of the Mentions
Mentioned(k) ==
    /\ SkillMDDocument.kind = "fm"
    /\ \E j \in 1..Len(SkillMDDocument.body) : SkillMDDocument.body[j] = k

\* the warnings of a Result with the code, about the reference
WarningsAbout(c, code, ref) ==
    Cardinality({k \in 1..Len(c.result.Warnings) :
                    /\ c.result.Warnings[k].Code = code
                    /\ Len(c.result.Warnings[k].Message) = 2
                    /\ c.result.Warnings[k].Message[2] = ref})

\* the filesystem calls the scanner made on a path
OpsOn(c, path) == {k \in 1..Len(c.ops) : c.ops[k][2] = path}

\* the reference of the third mention, [s](../secret.txt), and the path it
\* names from the skill directory /w/sk
ClimbingRef == << ".", ".", "/", "s", "e", "c", "r", "e", "t", ".", "t", "x", "t" >>
ClimbingTarget == << << "w" >>, << "s", "e", "c", "r", "e", "t", ".", "t", "x", "t" >> >>

\* C24: with warnings enabled and CheckRefsExist set, a reference of the body
\* that climbs out of the skill directory, ../secret.txt, has a
\* REF_CONTAINS_DOTDOT warning and a REF_ESCAPES_ROOT warning, no
\* REF_MISSING_FILE warning, and the scanner makes no filesystem call on the
\* path it names.
C24_ClimbingReferenceUntouched ==
    \A i \in Calls :
        (/\ Scanned(i) /\ Mentioned(3)
         /\ ~calls[i].opts.NoWarn /\ calls[i].opts.CheckRefsExist) =>
            /\ WarningsAbout(calls[i], codes.codeRefContainsDotDot, ClimbingRef) = 1
            /\ WarningsAbout(calls[i], codes.codeRefEscapesRoot, ClimbingRef) = 1
            /\ WarningsAbout(calls[i], codes.codeRefMissingFile, ClimbingRef) = 0
            /\ OpsOn(calls[i], ClimbingTarget) = {}
            /\ \A k \in 1..Len(calls[i].ops) : InSkillDirectory(calls[i].ops[k][2])

\* C24 witness: the body mentions ../secret.txt and scripts/a.sh; the run
\* looked at scripts/a.sh on the filesystem and warned twice about
\* ../secret.txt without looking at it.
C24_ClimbingBesideChecked ==
    \E i \in Calls :
        /\ Scanned(i) /\ Mentioned(3) /\ Mentioned(1)
        /\ ~calls[i].opts.NoWarn /\ calls[i].opts.CheckRefsExist
        /\ calls[i].ops # << >>
        /\ OpsOn(calls[i], ClimbingTarget) = {}
        /\ WarningsAbout(calls[i], codes.codeRefContainsDotDot, ClimbingRef) = 1
        /\ WarningsAbout(calls[i], codes.codeRefEscapesRoot, ClimbingRef) = 1

ReferenceCodes ==
    {codes.codeRefContainsDotDot, codes.codeRefTooDeep, codes.codeRefMissingFile,
     codes.codeRefEscapesRoot}

\* C25: a finding with a code REF_CONTAINS_DOTDOT, REF_TOO_DEEP,
\* REF_MISSING_FILE or REF_ESCAPES_ROOT is a warning and stands in Warnings,
\* never in Errors; when NoWarn is true no such finding is made and the
\* scanner looks at no reference (it makes no filesystem call).
C25_ReferenceFindingsAreWarnings ==
    \A i \in Calls :
        /\ CodesOf(calls[i].result.Errors) \cap ReferenceCodes = {}
        /\ \A k \in 1..Len(calls[i].result.Warnings) :
              calls[i].result.Warnings[k].Code \in ReferenceCodes
                  => calls[i].result.Warnings[k].Level = LevelWarning
        /\ \A k \in 1..Len(calls[i].result.Errors) :
              calls[i].result.Errors[k].Level = LevelError
        /\ calls[i].opts.NoWarn =>
              /\ CodesOf(calls[i].result.Warnings) \cap ReferenceCodes = {}
              /\ calls[i].ops = << >>

\* C25 witness: the body mentions ../secret.txt and scripts/a.sh, which does
\* not exist, and existence is checked: under NoWarn the run returned without
\* a warning and without a filesystem call for a reference.
C25_SuppressedScan ==
    \E i \in Calls :
        /\ Scanned(i) /\ Mentioned(1) /\ Mentioned(3)
        /\ KindAt(Append(SiblingPath("scripts"), ChildSegment("scripts"))) = "absent"
        /\ calls[i].opts.NoWarn /\ calls[i].opts.CheckRefsExist
        /\ calls[i].result.Warnings = << >>
        /\ calls[i].ops = << >>

(***************************************************************************)
(* The exit codes (under CliSpec).                                         *)
(***************************************************************************)
Exited == outcome.pc = "exited"

\* a usage failure: an undefined flag, a wrong number of arguments, an
\* unsupported schema version or format
UsageFailure ==
    \/ input.flags = "undefined"
    \/ input.nArg # 1
    \/ input.schemaVersion # 1
    \/ input.format \notin {"text", "json"}

\* a runtime failure: ValidateSkill returned an error, or the report could
\* not be rendered or written
RuntimeFailure ==
    \/ input.validated.err # "nil"
    \/ input.format = "json" /\ input.renderErr # "nil"
    \/ input.writeErr # "nil"

\* ValidateSkill was called and returned no error
ReturnedResult == outcome.called /\ input.validated.err = "nil"

\* C26 as stated: the process exits with 0 iff ValidateSkill returned no
\* runtime error and Valid is true, with 1 iff it returned no runtime error
\* and Valid is false, and with 2 for every runtime or usage failure, the
\* message then written to stderr.  (A failure to render or write counts as
\* a runtime failure for all three codes.)
C26_ExitCodesAsStated ==
    Exited =>
        LET failed == UsageFailure \/ RuntimeFailure
        IN  /\ outcome.exit.code = 0 <=> (ReturnedResult /\ input.validated.Valid /\ ~failed)
            /\ outcome.exit.code = 1 <=> (ReturnedResult /\ ~input.validated.Valid /\ ~failed)
            /\ failed => outcome.exit.code = 2 /\ outcome.exit.stderr # << >>

\* C26 amended: when the command line asks for help the process prints the
\* usage to stderr and exits with 0 without calling ValidateSkill; otherwise
\* it exits with 2 and a message on stderr iff a usage or runtime failure
\* occurs, with 0 iff none occurs and Valid is true, with 1 iff none occurs
\* and Valid is false; ValidateSkill is called iff there is no usage failure.
C26_ExitCodesUnlessHelp ==
    Exited =>
        LET failed == UsageFailure \/ RuntimeFailure
        IN  IF input.flags = "help"
            THEN outcome.exit.code = 0 /\ ~outcome.called /\ outcome.written = "none"
            ELSE /\ outcome.exit.code \in {0, 1, 2}
                 /\ outcome.exit.code = 2 <=> failed
                 /\ outcome.exit.code = 0 <=> (~failed /\ input.validated.Valid)
                 /\ outcome.exit.code = 1 <=> (~failed /\ ~input.validated.Valid)
                 /\ failed <=> outcome.exit.stderr # << >>
                 /\ outcome.called <=> ~UsageFailure
                 /\ failed <=> outcome.written = "none"

\* C26 witness: ValidateSkill returned a Result that is not valid and no
\* error; the JSON report went to the output file and the process exited
\* with 1 and nothing on stderr.
C26_InvalidExitsOne ==
    /\ Exited
    /\ ReturnedResult /\ ~input.validated.Valid
    /\ input.format = "json" /\ outcome.written = "file"
    /\ outcome.exit = [code |-> 1, stderr |-> << >>]

(***************************************************************************)
(* Concurrent callers (under ConcurrentSpec).                              *)
(***************************************************************************)
\* what an invocation returned: the Result and the error
Returned(i) == [result |-> calls[i].result, err |-> calls[i].err]

\* C27 as stated: under every interleaving of the steps of the concurrent
\* invocations 3 and 4, each returns the same Result, and the same error, as
\* the same call made alone (invocations 1 and 2).
C27_ConcurrentAsAlone ==
    \A i \in {3, 4} : calls[i].pc = "done" => Returned(i) = Returned(i - 2)

(***************************************************************************)
(* The catalog of codes (under Spec).                                      *)
(***************************************************************************)
\* the findings held by the Results of the invocations
ReportedFindings ==
    UNION {{calls[i].result.Errors[k] : k \in 1..Len(calls[i].result.Errors)} \cup
           {calls[i].result.Warnings[k] : k \in 1..Len(calls[i].result.Warnings)} :
           i \in DOMAIN calls}

\* the declared code constants
Declared == {codes[n] : n \in DOMAIN codes}

\* the condition a finding reports: the text of its message, the path,
\* reference, key list or library error it quotes left open, about the entry
\* its file label names
Condition(f) == << f.Message[1], f.File >>

\* C28 as stated: every code in a Result is a declared constant, no code is
\* reported for two different conditions, and a condition is always reported
\* with the same code and the same severity.
C28_CatalogNonOverlapping ==
    \A f \in ReportedFindings :
        /\ f.Code \in Declared
        /\ \A g \in ReportedFindings :
            /\ f.Code = g.Code => Condition(f) = Condition(g)
            /\ Condition(f) = Condition(g) => f.Code = g.Code /\ f.Level = g.Level

(***************************************************************************)
(* References inside the skill directory (under Spec).                     *)
(***************************************************************************)
\* the reference of the first and the sixth mention, scripts/a.sh, and the
\* cleaned path it names from the skill directory /w/sk
ScriptRef == << "s", "c", "r", "i", "p", "t", "s", "/", "a", ".", "s", "h" >>
ScriptTarget == Append(Append(Root, SiblingSegment("scripts")), ChildSegment("scripts"))

\* C29 as stated, for the reference scripts/a.sh of a body scanned with
\* warnings enabled: with CheckRefsExist set, REF_MISSING_FILE is reported iff
\* the target does not exist; a target that exists and is a symlink is, with
\* FollowSymlinks false, resolved, and reported with REF_ESCAPES_ROOT iff it
\* resolves outside the skill directory and with REF_MISSING_FILE if it
\* cannot be resolved; with FollowSymlinks true the link is not resolved; the
\* reference never has both warnings.  Without CheckRefsExist it has neither
\* and the scanner makes no filesystem call.
C29_InsideReferenceChecked ==
    \A i \in Calls :
        (Scanned(i) /\ (Mentioned(1) \/ Mentioned(6)) /\ ~calls[i].opts.NoWarn) =>
            LET missing == WarningsAbout(calls[i], codes.codeRefMissingFile, ScriptRef)
                escapes == WarningsAbout(calls[i], codes.codeRefEscapesRoot, ScriptRef)
                resolved == EvalSymlinks(env.nodes, ScriptTarget)
                evaluated == \E k \in OpsOn(calls[i], ScriptTarget) :
                                calls[i].ops[k][1] = "EvalSymlinks"
            IN  IF ~calls[i].opts.CheckRefsExist
                THEN missing = 0 /\ escapes = 0 /\ calls[i].ops = << >>
                ELSE /\ missing + escapes <= 1
                     /\ IF ScriptTarget \notin DOMAIN env.nodes
                        THEN missing = 1
                        ELSE IF env.nodes[ScriptTarget].kind = "symlink"
                                /\ ~calls[i].opts.FollowSymlinks
                        THEN /\ evaluated
                             /\ missing = 1 <=> resolved.err # "nil"
                             /\ escapes = 1 <=>
                                    (resolved.err = "nil" /\ ~InSkillDirectory(resolved.path))
                        ELSE missing = 0 /\ escapes = 0 /\ ~evaluated

(***************************************************************************)
(* Terminal findings (under Spec).                                         *)
(***************************************************************************)
TerminalCodes ==
    {"PATH_NOT_FOUND", "PATH_NOT_DIRECTORY", "SKILL_MD_MISSING", "SKILL_MD_NOT_FILE",
     "SKILL_MD_SYMLINK_INVALID", "SKILL_MD_SYMLINK_ESCAPES_ROOT", "FRONTMATTER_START_MISSING",
     "FRONTMATTER_END_MISSING", "FRONTMATTER_EMPTY", "FRONTMATTER_INVALID_YAML",
     "FRONTMATTER_NOT_MAPPING"}

\* the codes of the field rules, the unknown keys, the body and the references
ContentCodes == Declared \ (TerminalCodes \cup SiblingCodes \cup {codes.codeSkillMDSymlink})

\* the terminal findings a Result holds
TerminalFindings(c) ==
    CountOf(c.result.Errors, TerminalCodes) + CountOf(c.result.Warnings, TerminalCodes)

\* C30: a Result holds at most one terminal finding; the step that records
\* one finalizes the Result and returns it with a nil error, and no later
\* step changes anything of the invocation; every Result returned with a nil
\* error was finalized exactly once; a Result with a terminal finding holds no
\* field-rule, unknown-key, body or reference finding; and a SKILL.md that is
\* a symlink which cannot be resolved ends the run with the error
\* SKILL_MD_SYMLINK_INVALID and a nil error.
C30_TerminalFindingsFinal ==
    /\ [](\A i \in Calls :
            /\ TerminalFindings(calls[i]) <= 1
            /\ ReturnedNil(i) => calls[i].finalized = 1
            /\ TerminalFindings(calls[i]) = 1 =>
                /\ ReturnedNil(i)
                /\ CountOf(calls[i].result.Errors, TerminalCodes) = 1
                /\ (CodesOf(calls[i].result.Errors) \cup CodesOf(calls[i].result.Warnings))
                       \cap ContentCodes = {}
            /\ (/\ Done(i) /\ SkillDirectoryReached
                /\ KindAt(SkillMDPath) = "symlink" /\ SkillMDTarget.err # "nil") =>
                    /\ calls[i].err = "nil"
                    /\ CountOf(calls[i].result.Errors, {"SKILL_MD_SYMLINK_INVALID"}) = 1)
    /\ [][\A i \in Calls : TerminalFindings(calls[i]) = 1 => calls[i]' = calls[i]]_vars

\* C30 witness: SKILL.md is a dangling symlink beside a scripts entry that is
\* a file; the run returned a nil error and a Result, finalized once, whose
\* errors are SCRIPTS_NOT_DIRECTORY and SKILL_MD_SYMLINK_INVALID and whose only
\* warning is SKILL_MD_SYMLINK.
C30_DanglingLinkReported ==
    \E i \in Calls :
        /\ ReturnedNil(i) /\ calls[i].finalized = 1
        /\ KindAt(SkillMDPath) = "symlink" /\ SkillMDTarget.err # "nil"
        /\ CodesOf(calls[i].result.Errors) =
               {SiblingErrorCode("scripts"), "SKILL_MD_SYMLINK_INVALID"}
        /\ Len(calls[i].result.Errors) = 2
        /\ CodesOf(calls[i].result.Warnings) = {codes.codeSkillMDSymlink}

====
